---------------------------- MODULE Spec2Model ----------------------------
(***************************************************************************)
(* PestiScan: the Risk Scoring Engine (shared/risk.js), the scan endpoints *)
(* of the server (server/index.js, the scan router), the Leaf Photo        *)
(* Analyzer (leafVision.js), the scan wizard (Scan.jsx), the auth routes   *)
(* with their users file (auth.js, usersStore.js) and the scan history in  *)
(* the browser (Scan.jsx, History.jsx, AuthContext.jsx).                   *)
(*                                                                         *)
(* calculateRisk is a pure function of one JavaScript value.  The model    *)
(* runs it as a small sequential machine (enter, the three sanity rules,   *)
(* return) over a bounded set of payloads.  Each of the other components   *)
(* has its own variables, actions and specifications; a specification of   *)
(* one component leaves the variables of the others idle.                  *)
(*                                                                         *)
(* Numbers.  JavaScript doubles are modelled in decimal fixed point:       *)
(*   - payload fields are integers (the JS numbers 0, 5, 10, ...);         *)
(*   - the five component scores are integers in units of 1/SCALE;         *)
(*   - aiContribution, baseScore, total01 and totalScore are integers in   *)
(*     units of 1/FUSE, a scale in which the weighted sum and the AI       *)
(*     product are exact.                                                  *)
(* Every rational step of the code is exact in the model on the payloads   *)
(* the specifications draw, or rounded to the nearest 1/SCALE; Math.exp    *)
(* and Math.tanh are tabulated to 1/SCALE.  The binary rounding error of   *)
(* IEEE doubles (0.15 + 0.55 evaluates to 0.7000000000000001) is not       *)
(* modelled.                                                               *)
(***************************************************************************)
EXTENDS Integers, Sequences, FiniteSets, TLC

VARIABLES payload, pc, loc, riskPercent, ret,
          req, res, scored,
          file, opts, an, analysis,
          ui, inflight,
          users, handlers,
          storage, session

\* one call of calculateRisk
engineVars == <<payload, pc, loc, riskPercent, ret>>
\* one request to a scan endpoint
serverVars == <<req, res, scored>>
\* one call of analyzeLeafPhoto
analyzerVars == <<file, opts, an, analysis>>
\* the scan wizard and its photo analyses in flight
wizardVars == <<ui, inflight>>
\* the users file of the server and the auth requests being handled
authVars == <<users, handlers>>
\* the browser: localStorage and the page that is open
browserVars == <<storage, session>>

vars == <<engineVars, serverVars, analyzerVars, wizardVars, authVars,
         browserVars>>

(***************************************************************************)
(* JavaScript values                                                       *)
(***************************************************************************)
Undef == [t |-> "undefined"]
Null == [t |-> "null"]
NaNv == [t |-> "nan"]
Infv == [t |-> "inf"]
\* a non-empty, non-numeric string such as "abc"
Str == [t |-> "str"]
Num(n) == [t |-> "num", v |-> n]
\* a string that is the JSON text of the value v
Json(v) == [t |-> "json", v |-> v]
\* an object; o maps its own property names to values
Obj(o) == [t |-> "obj", o |-> o]
EmptyObj == Obj(<<>>)

\* Model-only marker: the property is not set on the object being built.
Absent == [t |-> "absent"]

\* The object with the properties of f whose value is not Absent.
MkObj(f) == Obj([k \in {x \in DOMAIN f : f[x] # Absent} |-> f[k]])

\* x.k for a non-nullish x (the callers never read a property of null/undefined)
Get(x, k) == IF x.t = "obj" /\ k \in DOMAIN x.o THEN x.o[k] ELSE Undef

\* a ?? b
Coalesce(a, b) == IF a.t \in {"undefined", "null"} THEN b ELSE a

Truthy(x) ==
    CASE x.t = "obj" -> TRUE
      [] x.t = "str" -> TRUE
      [] x.t = "json" -> TRUE
      [] x.t = "inf" -> TRUE
      [] x.t = "num" -> x.v # 0
      [] OTHER -> FALSE

\* a || b
Or(a, b) == IF Truthy(a) THEN a ELSE b

\* Number(x)
ToNumber(x) ==
    CASE x.t = "num" -> x
      [] x.t = "json" /\ x.v.t = "num" -> x.v
      [] x.t = "inf" -> Infv
      [] x.t = "null" -> Num(0)
      [] OTHER -> NaNv

\* Number.isFinite(x): no coercion, only a finite value of type number
IsFinite(x) == x.t = "num"

(***************************************************************************)
(* Fixed point                                                             *)
(***************************************************************************)
SCALE == 1000 * 1000
\* units of aiContribution / baseScore / total01 / totalScore
FUSE == 800 * SCALE

Min(a, b) == IF a <= b THEN a ELSE b
Max(a, b) == IF a >= b THEN a ELSE b
Abs(a) == IF a < 0 THEN -a ELSE a

\* Math.round(n / d) for d > 0: floor(n/d + 1/2)
RoundDiv(n, d) == (2 * n + d) \div (2 * d)

(***************************************************************************)
(* clamp / clampNum / pct / labelFromPercent                               *)
(***************************************************************************)
\* clamp(n, min, max), n a number value in some fixed-point unit
clamp(n, min, max) ==
    LET x == ToNumber(n)
    IN IF ~IsFinite(x) THEN min ELSE Min(Max(x.v, min), max)

\* clampNum(n, fallback): a number value (fallback may be NaNv)
clampNum(n, fallback) ==
    LET x == ToNumber(n)
    IN IF IsFinite(x) THEN x ELSE fallback

\* pct(x01), x01 in FUSE units: Math.round(clamp(x01, 0, 1) * 100)
pct(x01) == (clamp(Num(x01), 0, FUSE) + FUSE \div 200) \div (FUSE \div 100)

LOW_MAX == 30
MEDIUM_MAX == 60

labelFromPercent(p) ==
    LET x == clampNum(Num(p), Num(0)).v
    IN IF x <= LOW_MAX THEN "Low"
       ELSE IF x <= MEDIUM_MAX THEN "Medium"
       ELSE "High"


(***************************************************************************)
(* Math.exp and Math.tanh, tabulated                                       *)
(***************************************************************************)
\* round(SCALE * 2^(-j/20)), j = 0..20
Pow2Table ==
    <<1000000, 965936, 933033, 901250, 870551, 840896, 812252, 784584,
      757858, 732043, 707107, 683020, 659754, 637280, 615572, 594604,
      574349, 554785, 535887, 517632, 500000>>

\* SCALE * 2^(-f/h) for 0 <= f < h: the table, linear between its knots
Pow2NegFrac(f, h) ==
    LET j == (20 * f) \div h
        r == (20 * f) % h
        lo == Pow2Table[j + 1]
        hi == Pow2Table[j + 2]
    IN lo - RoundDiv((lo - hi) * r, h)

\* SCALE * Math.exp(-(Math.log(2) * d) / h) for h > 0.  For d < 0 the value
\* is above SCALE; the model returns a lower bound of it that is >= SCALE.
ExpDecay(d, h) ==
    IF d < 0 THEN SCALE * (2 ^ Min((-d) \div h, 10))
    ELSE LET k == d \div h
         IN IF k > 20 THEN 0
            ELSE RoundDiv(Pow2NegFrac(d % h, h), 2 ^ k)

\* round(SCALE * tanh(j/10)), j = 0..30
TanhTable ==
    <<0, 99668, 197375, 291313, 379949, 462117, 537050, 604368, 664037,
      716298, 761594, 800499, 833655, 861723, 885352, 905148, 921669,
      935409, 946806, 956237, 964028, 970452, 975743, 980096, 983675,
      986614, 989027, 991007, 992632, 993963, 995055>>

\* round(SCALE * tanh(j)), j = 3..8
TanhCoarse == <<995055, 999329, 999909, 999988, 999998, 1000000>>

\* SCALE * Math.tanh(x), x >= 0 given in thousandths: the tables, linear
\* between their knots
Tanh(xm) ==
    IF xm >= 8000 THEN SCALE
    ELSE IF xm >= 3000 THEN
        LET j == xm \div 1000
            lo == TanhCoarse[j - 2]
            hi == TanhCoarse[j - 1]
        IN lo + RoundDiv((hi - lo) * (xm % 1000), 1000)
    ELSE
        LET j == xm \div 100
            lo == TanhTable[j + 1]
            hi == TanhTable[j + 2]
        IN lo + RoundDiv((hi - lo) * (xm % 100), 100)

(***************************************************************************)
(* Component scores, in units of 1/SCALE                                   *)
(***************************************************************************)
DECAY_NO_HALFLIFE == 500000

decayScore(daysSinceSpray, halfLifeDays) ==
    LET d == clampNum(daysSinceSpray, Num(0)).v
        h == clampNum(halfLifeDays, Num(0)).v
    IN IF h <= 0 THEN clamp(Num(DECAY_NO_HALFLIFE), 0, SCALE)
       ELSE clamp(Num(ExpDecay(d, h)), 0, SCALE)

DOSE_FLOOR == 150000
DOSE_SLOPE == 550000
DOSE_AT_ONE == 700000

\* mutant: no branch for ratio <= 0, the line starts at ratio 0
DoseCurveFromZero(applied, rec) ==
    IF applied <= rec THEN DOSE_FLOOR + RoundDiv(DOSE_SLOPE * applied, rec)
    ELSE DOSE_AT_ONE
         + RoundDiv(3 * Tanh(RoundDiv(1200 * (applied - rec), rec)), 10)

\* the curve of doseScore for ratio = applied / rec, rec > 0
DoseCurve(applied, rec) ==
    IF applied <= 0 THEN 0
    ELSE IF applied <= rec THEN DOSE_FLOOR + RoundDiv(DOSE_SLOPE * applied, rec)
    ELSE DOSE_AT_ONE
         + RoundDiv(3 * Tanh(RoundDiv(1200 * (applied - rec), rec)), 10)

doseScore(appliedDose, recommendedDose) ==
    LET applied == clampNum(appliedDose, Num(0)).v
        rec == clampNum(recommendedDose, Num(0)).v
    IN IF rec <= 0 THEN 0
       ELSE clamp(Num(DoseCurve(applied, rec)), 0, SCALE)

PH_BOTH_MISSING == 250000
PH_AXIS_MISSING == 250000

\* Math.min(Math.abs(ph - 7) / 3, 1)
PhDist(ph) ==
    IF Abs(ph - 7) >= 3 THEN SCALE ELSE Min(RoundDiv(Abs(ph - 7) * SCALE, 3), SCALE)

phScore(leafPh, soilPh) ==
    LET lp == clampNum(leafPh, NaNv)
        sp == clampNum(soilPh, NaNv)
        leafDist == IF IsFinite(lp) THEN PhDist(lp.v) ELSE PH_AXIS_MISSING
        soilDist == IF IsFinite(sp) THEN PhDist(sp.v) ELSE PH_AXIS_MISSING
    IN IF ~IsFinite(lp) /\ ~IsFinite(sp) THEN PH_BOTH_MISSING
       ELSE clamp(Num(200000 + RoundDiv(3 * (leafDist + soilDist), 10)),
                  0, SCALE)

MOISTURE_MISSING == 350000

\* mutant: a missing moisture scores the floor of the curve
moistureScoreMissingLow(moisture) ==
    LET m == clampNum(moisture, Num(0))
    IN clamp(Num(250000 + 5500 * clamp(m, 0, 100)), 0, SCALE)

moistureScore(moisture) ==
    LET m == clampNum(moisture, NaNv)
    IN IF ~IsFinite(m) THEN MOISTURE_MISSING
       ELSE \* x = clamp(m / 100, 0, 1), kept in hundredths
            LET x == clamp(m, 0, 100)
            IN clamp(Num(250000 + 5500 * x), 0, SCALE)

WEATHER_BASELINE == 350000

\* mutant: the active range has no upper end, the terms above 35 add up
WeatherSumOpenRange(weather) ==
    LET tempC == clampNum(Coalesce(Coalesce(Get(weather, "tempC"),
                     Get(weather, "temperatureC")), Get(weather, "temperature")),
                     NaNv)
        humidity == clampNum(Coalesce(Get(weather, "humidity"),
                     Get(weather, "humidityPct")), NaNv)
        rainfallMm == clampNum(Coalesce(Coalesce(Get(weather, "rainfallMm"),
                     Get(weather, "rainMm")), Get(weather, "rain")), NaNv)
        windKph == clampNum(Coalesce(Coalesce(Get(weather, "windKph"),
                     Get(weather, "windSpeedKph")), Get(weather, "wind")), NaNv)
        tTerm == IF IsFinite(tempC)
                 THEN (IF tempC.v >= 18 THEN 100000 ELSE 0)
                      + (IF tempC.v > 35 THEN 120000 ELSE 0)
                      - (IF tempC.v < 12 THEN 60000 ELSE 0)
                 ELSE 0
        \* 0.18 * clamp(humidity / 100, 0, 1)
        hTerm == IF IsFinite(humidity) THEN 1800 * clamp(humidity, 0, 100) ELSE 0
        \* 0.20 * Math.min(rainfallMm / 20, 1): no lower clamp
        rTerm == IF IsFinite(rainfallMm) THEN 10000 * Min(rainfallMm.v, 20) ELSE 0
        \* 0.06 * clamp(windKph / 35, 0, 1)
        wTerm == IF IsFinite(windKph)
                 THEN RoundDiv(60000 * clamp(windKph, 0, 35), 35) ELSE 0
    IN WEATHER_BASELINE + tTerm + hTerm - rTerm + wTerm

\* the score before the final clamp
WeatherSum(weather) ==
    LET tempC == clampNum(Coalesce(Coalesce(Get(weather, "tempC"),
                     Get(weather, "temperatureC")), Get(weather, "temperature")),
                     NaNv)
        humidity == clampNum(Coalesce(Get(weather, "humidity"),
                     Get(weather, "humidityPct")), NaNv)
        rainfallMm == clampNum(Coalesce(Coalesce(Get(weather, "rainfallMm"),
                     Get(weather, "rainMm")), Get(weather, "rain")), NaNv)
        windKph == clampNum(Coalesce(Coalesce(Get(weather, "windKph"),
                     Get(weather, "windSpeedKph")), Get(weather, "wind")), NaNv)
        tTerm == IF IsFinite(tempC)
                 THEN (IF tempC.v >= 18 /\ tempC.v <= 35 THEN 100000 ELSE 0)
                      + (IF tempC.v > 35 THEN 120000 ELSE 0)
                      - (IF tempC.v < 12 THEN 60000 ELSE 0)
                 ELSE 0
        \* 0.18 * clamp(humidity / 100, 0, 1)
        hTerm == IF IsFinite(humidity) THEN 1800 * clamp(humidity, 0, 100) ELSE 0
        \* 0.20 * Math.min(rainfallMm / 20, 1): no lower clamp
        rTerm == IF IsFinite(rainfallMm) THEN 10000 * Min(rainfallMm.v, 20) ELSE 0
        \* 0.06 * clamp(windKph / 35, 0, 1)
        wTerm == IF IsFinite(windKph)
                 THEN RoundDiv(60000 * clamp(windKph, 0, 35), 35) ELSE 0
    IN WEATHER_BASELINE + tTerm + hTerm - rTerm + wTerm

\* mutant: the final clamp is dropped
weatherScoreNoClamp(weather) == WeatherSum(weather)

weatherScore(weather) == clamp(Num(WeatherSum(weather)), 0, SCALE)

(***************************************************************************)
(* computeAiContribution, in units of 1/FUSE                               *)
(***************************************************************************)
AI_DEFAULT_CONFIDENCE == 50
\* clamp(confidence / 100, 0.3, 1), kept in hundredths
AI_CONF_FLOOR == 30
AI_DAYS_LOW == 14
AI_DAYS_MID == 7
\* mutant: no time decay of the AI contribution
TimeFactor20Flat(d) == 20

\* mutant: the bands start a day late (d > 14, d > 7)
TimeFactor20Late(d) == IF d > AI_DAYS_LOW THEN 8 ELSE IF d > AI_DAYS_MID THEN 13 ELSE 20

\* timeFactor 1, 0.65, 0.4 in twentieths
TimeFactor20(d) == IF d >= AI_DAYS_LOW THEN 8 ELSE IF d >= AI_DAYS_MID THEN 13 ELSE 20
\* the softening factor 0.7, 0.85, 1.0 in twentieths, stress in hundredths
Soften20(stress) == IF stress < 40 THEN 14 ELSE IF stress < 70 THEN 17 ELSE 20
\* HARD CAP 0.25
AiCap == FUSE \div 4

\* stress, conf in hundredths and the two factors in twentieths:
\* stress/100 * soft/20 * conf/100 * time/20 * 0.25 = product / 16 000 000,
\* that is product * 50 in units of 1/FUSE
AiScoreQuarter(stress, conf, d) ==
    stress * Soften20(stress) * conf * TimeFactor20(d) * 50

\* mutant: the confidence is clamped to [0, 1], no floor
computeAiContributionNoFloor(stressScore, confidence0, daysSinceSpray) ==
    LET confidence == IF confidence0 = Undef THEN Num(AI_DEFAULT_CONFIDENCE)
                      ELSE confidence0
    IN IF stressScore.t \in {"undefined", "null"} THEN 0
       ELSE LET stress == clamp(stressScore, 0, 100)
                conf == clamp(confidence, 0, 100)
                d == clampNum(daysSinceSpray, Num(0)).v
            IN Min(AiScoreQuarter(stress, conf, d), AiCap)

computeAiContribution(stressScore, confidence0, daysSinceSpray) ==
    LET confidence == IF confidence0 = Undef THEN Num(AI_DEFAULT_CONFIDENCE)
                      ELSE confidence0
    IN IF stressScore.t \in {"undefined", "null"} THEN 0
       ELSE LET stress == clamp(stressScore, 0, 100)
                conf == clamp(confidence, AI_CONF_FLOOR, 100)
                d == clampNum(daysSinceSpray, Num(0)).v
            IN Min(AiScoreQuarter(stress, conf, d), AiCap)

(***************************************************************************)
(* calculateRisk                                                           *)
(***************************************************************************)
\* weights, in hundredths
W_DOSE == 22
W_DECAY == 28
W_WEATHER == 18
W_MOIST == 14
W_PH == 10

\* calculateRisk(payload = {}): the default applies to undefined only
Param(p) == IF p = Undef THEN EmptyObj ELSE p

\* payload.inputs is read first: a TypeError when payload is null
Throws(p) == Param(p).t = "null"

TypeError == [t |-> "throw", error |-> "TypeError"]

\* W_DOSE * sDose + ... + W_PH * sPh, in units of 1/FUSE
WeightedSum(sDose, sDecay, sWeather, sMoist, sPh) ==
    8 * (W_DOSE * sDose + W_DECAY * sDecay + W_WEATHER * sWeather
         + W_MOIST * sMoist + W_PH * sPh)

\* The local constants of calculateRisk up to the percent conversion.
Locals(p0) ==
    LET p == Param(p0)
        inputs == Or(Or(Get(p, "inputs"), p), EmptyObj)
        weather == Or(Get(p, "weather"), EmptyObj)
        ai == Or(Get(p, "ai"), EmptyObj)
        appliedDose == Coalesce(Coalesce(Get(inputs, "appliedDose"),
                           Get(inputs, "dose")), Get(inputs, "userDose"))
        recommendedDose == Coalesce(Coalesce(Get(inputs, "recommendedDose"),
                           Get(inputs, "recDose")), Get(inputs, "recommended"))
        daysSinceSpray == Coalesce(Coalesce(Get(inputs, "daysSinceSpray"),
                           Get(inputs, "days")), Get(inputs, "sprayDays"))
        halfLifeDays == Coalesce(Coalesce(Get(inputs, "halfLifeDays"),
                           Get(inputs, "halfLife")), Get(inputs, "halflife"))
        leafPh == Coalesce(Get(inputs, "leafPh"), Get(inputs, "leafPH"))
        soilPh == Coalesce(Get(inputs, "soilPh"), Get(inputs, "soilPH"))
        moisture == Get(inputs, "moisture")
        aiStress == Coalesce(Coalesce(Get(ai, "stressScore"),
                           Get(ai, "imageStress")), Get(inputs, "imageStress"))
        aiConfidence == Coalesce(Get(ai, "confidence"), Num(AI_DEFAULT_CONFIDENCE))
        sDose == doseScore(appliedDose, recommendedDose)
        sDecay == decayScore(daysSinceSpray, halfLifeDays)
        sPh == phScore(leafPh, soilPh)
        sMoist == moistureScore(moisture)
        sWeather == weatherScore(weather)
        aiContribution == computeAiContribution(aiStress, aiConfidence, daysSinceSpray)
        base == clamp(Num(WeightedSum(sDose, sDecay, sWeather, sMoist, sPh)), 0, FUSE)
    IN [appliedDose |-> appliedDose, recommendedDose |-> recommendedDose,
        weather |-> weather, aiStress |-> aiStress, aiConfidence |-> aiConfidence,
        sDose |-> sDose, sDecay |-> sDecay, sPh |-> sPh, sMoist |-> sMoist,
        sWeather |-> sWeather, aiContribution |-> aiContribution, base |-> base,
        total01 |-> clamp(Num(base + aiContribution), 0, FUSE),
        d |-> clampNum(daysSinceSpray, Num(0)).v]

\* Sanity 1: Long time since spray -> AI alone can't keep it very high
S1_DAYS == 20
S1_CAP == 55
\* aiContribution > 0.15
S1_AI == (FUSE \div 100) * 15
Sanity1Guard(l, rp) == l.d >= S1_DAYS /\ rp > MEDIUM_MAX /\ l.aiContribution > S1_AI
Sanity1(l, rp) == IF Sanity1Guard(l, rp) THEN Min(rp, S1_CAP) ELSE rp

\* Sanity 2: Very low dose + strong decay => cannot be High
S2_SCORE == 200000
S2_CAP == 45
Sanity2Guard(l) == l.sDose < S2_SCORE /\ l.sDecay < S2_SCORE
\* mutant: Math.max for Math.min
Sanity2Raises(l, rp) == IF Sanity2Guard(l) THEN Max(rp, S2_CAP) ELSE rp
\* mutant: the cap of rule 1 used in rule 2
Sanity2Cap55(l, rp) == IF Sanity2Guard(l) THEN Min(rp, S1_CAP) ELSE rp
Sanity2(l, rp) == IF Sanity2Guard(l) THEN Min(rp, S2_CAP) ELSE rp

\* Sanity 3: High AI stress but low confidence -> downgrade a bit
S3_STRESS == 80
S3_CONFIDENCE == 40
S3_DROP == 10
Sanity3Guard(l) ==
    /\ clampNum(l.aiStress, Num(0)).v > S3_STRESS
    /\ clampNum(l.aiConfidence, Num(0)).v < S3_CONFIDENCE
\* mutant: the confidence is not looked at
Sanity3IgnoresConfidence(l, rp) ==
    IF clampNum(l.aiStress, Num(0)).v > S3_STRESS THEN Max(rp - S3_DROP, 0) ELSE rp

Sanity3(l, rp) == IF Sanity3Guard(l) THEN Max(rp - S3_DROP, 0) ELSE rp

TIP_HIGH == "High risk: follow label intervals and consider waiting before harvest."
TIP_RECENT == "Recent spray: residue is likely higher in the first few days."
TIP_DOSE == "Applied dose looks higher than recommended. Verify dilution and nozzle calibration."
TIP_HUMIDITY == "High humidity can increase plant stress; confirm with field conditions."
TIP_STRESS == "Leaf stress detected: inspect for pests, disease, or nutrient stress too."

TIP_HIGH_MIN == 61
TIP_RECENT_DAYS == 3
TIP_HUMIDITY_MIN == 80
TIP_STRESS_MIN == 75

\* ratio > 1.05, for the raw numbers of the payload
DoseTip(l) ==
    /\ IsFinite(l.recommendedDose) /\ IsFinite(l.appliedDose)
    /\ l.recommendedDose.v > 0
    /\ 100 * l.appliedDose.v > 105 * l.recommendedDose.v

Tips(l, rp) ==
    (IF rp >= TIP_HIGH_MIN THEN <<TIP_HIGH>> ELSE <<>>)
    \o (IF l.d < TIP_RECENT_DAYS THEN <<TIP_RECENT>> ELSE <<>>)
    \o (IF DoseTip(l) THEN <<TIP_DOSE>> ELSE <<>>)
    \o (IF clampNum(Get(l.weather, "humidity"), Num(0)).v >= TIP_HUMIDITY_MIN
        THEN <<TIP_HUMIDITY>> ELSE <<>>)
    \o (IF /\ l.aiStress.t \notin {"undefined", "null"}
           /\ clampNum(l.aiStress, Num(0)).v >= TIP_STRESS_MIN
        THEN <<TIP_STRESS>> ELSE <<>>)

\* mutant: the division by 100 is dropped
TotalScoreNoDivide(rp) == IF rp >= 1 THEN FUSE ELSE 0

\* breakdown.totalScore: clamp(riskPercent / 100, 0, 1), in units of 1/FUSE
TotalScore(rp) == clamp(Num(rp * (FUSE \div 100)), 0, FUSE)

Breakdown(l, rp) ==
    [doseScore |-> l.sDose, decayScore |-> l.sDecay, weatherScore |-> l.sWeather,
     moistureScore |-> l.sMoist, phScore |-> l.sPh,
     aiContribution |-> l.aiContribution, baseScore |-> l.base,
     totalScore |-> TotalScore(rp)]

\* mutant: the level is taken before the sanity rules
ResultLevelBeforeSanity(l, rp) ==
    [t |-> "obj", riskPercent |-> rp, level |-> labelFromPercent(pct(l.total01)),
     breakdown |-> Breakdown(l, rp), tips |-> Tips(l, rp)]

\* the returned object
Result(l, rp) ==
    [t |-> "obj", riskPercent |-> rp, level |-> labelFromPercent(rp),
     breakdown |-> Breakdown(l, rp), tips |-> Tips(l, rp)]

\* calculateRisk as a function of its argument
calculateRisk(p) ==
    IF Throws(p) THEN TypeError
    ELSE LET l == Locals(p)
         IN Result(l, Sanity3(l, Sanity2(l, Sanity1(l, pct(l.total01)))))

(***************************************************************************)
(* Payloads                                                                *)
(***************************************************************************)
InputsObj(a, r, d, h, lp, sp, m) ==
    MkObj([appliedDose |-> a, recommendedDose |-> r, daysSinceSpray |-> d,
           halfLifeDays |-> h, leafPh |-> lp, soilPh |-> sp, moisture |-> m])

WeatherObj(tc, hu, rn, w) ==
    MkObj([tempC |-> tc, humidity |-> hu, rainfallMm |-> rn, windKph |-> w])

AiObj(st, cf) == MkObj([stressScore |-> st, confidence |-> cf])

\* { inputs, weather, ai }; a group that is Absent is not set
Grouped(i, w, a) == MkObj([inputs |-> i, weather |-> w, ai |-> a])

\* applied doses -5, 0, 5, ..., 5 * MaxDoseSteps
MaxDoseSteps == 3
\* stress scores 0, 5, ..., 5 * MaxStressSteps
MaxStressSteps == 20

AppliedVals == {Num(5 * k) : k \in -1..MaxDoseSteps}
RecVals == {Absent, Num(10)}
DaysVals == {Num(0), Num(3), Num(7), Num(20), Num(60)}
HalfLifeVals == {Absent, Num(1), Num(3), Num(5)}
StressVals == {Absent, Num(50), Num(90), Num(100)}
ConfidenceVals == {Absent, Num(20), Num(100)}

\* leaf pH, soil pH, moisture and the weather sample, drawn together
EnvProfiles ==
    { [lp |-> Absent, sp |-> Absent, m |-> Absent,
       tc |-> Absent, hu |-> Absent, rn |-> Absent, w |-> Absent],
      [lp |-> Num(4), sp |-> Num(10), m |-> Num(100),
       tc |-> Num(40), hu |-> Num(100), rn |-> Num(0), w |-> Num(35)],
      [lp |-> Num(7), sp |-> Num(7), m |-> Num(0),
       tc |-> Num(5), hu |-> Num(0), rn |-> Num(20), w |-> Num(0)],
      [lp |-> Num(6), sp |-> Absent, m |-> Num(50),
       tc |-> Num(25), hu |-> Num(90), rn |-> Num(10), w |-> Num(14)],
      [lp |-> Num(-2), sp |-> Num(20), m |-> Num(150),
       tc |-> Num(36), hu |-> Num(130), rn |-> Num(-100), w |-> Num(70)],
      [lp |-> Absent, sp |-> Num(8), m |-> Num(-20),
       tc |-> Num(15), hu |-> Num(-10), rn |-> Num(40), w |-> Num(-7)] }

\* the end-to-end scenario: inputs only, no weather and no ai group
ScenarioPayload ==
    MkObj([inputs |-> InputsObj(Num(1), Num(1), Num(0), Num(5), Absent, Absent, Absent),
           weather |-> Absent, ai |-> Absent])

MainPayloads ==
    { Grouped(InputsObj(a, r, d, h, e.lp, e.sp, e.m),
              WeatherObj(e.tc, e.hu, e.rn, e.w),
              AiObj(st, cf)) :
        a \in AppliedVals, r \in RecVals, d \in DaysVals, h \in HalfLifeVals,
        e \in EnvProfiles, st \in StressVals, cf \in ConfidenceVals }
    \cup {ScenarioPayload}

(***************************************************************************)
(* The machine: one call of calculateRisk                                  *)
(***************************************************************************)
NoLocals == [t |-> "none"]
Pending == [t |-> "pending"]
\* the value of every variable of a component that is not running
Idle == [t |-> "idle"]

ServerIdle == req = Idle /\ res = Idle /\ scored = Idle
AnalyzerIdle == file = Idle /\ opts = Idle /\ an = Idle /\ analysis = Idle
WizardIdle == ui = Idle /\ inflight = Idle
AuthIdle == users = Idle /\ handlers = Idle
BrowserIdle == storage = Idle /\ session = Idle
EngineIdle ==
    payload = Idle /\ pc = "idle" /\ loc = NoLocals /\ riskPercent = 0 /\ ret = Idle

Start(payloads) ==
    /\ payload \in payloads
    /\ pc = "call"
    /\ loc = NoLocals
    /\ riskPercent = 0
    /\ ret = Pending
    /\ ServerIdle /\ AnalyzerIdle /\ WizardIdle /\ AuthIdle /\ BrowserIdle

Init == Start(MainPayloads)

\* lines 178-233: resolve the groups and the aliases, score, fuse, convert
Enter ==
    /\ pc = "call"
    /\ IF Throws(payload)
       THEN /\ pc' = "thrown"
            /\ ret' = TypeError
            /\ UNCHANGED <<loc, riskPercent>>
       ELSE /\ loc' = Locals(payload)
            /\ riskPercent' = pct(Locals(payload).total01)
            /\ pc' = "sanity1"
            /\ ret' = ret
    /\ UNCHANGED <<payload, serverVars, analyzerVars, wizardVars,
                 authVars, browserVars>>

ApplySanity1 ==
    /\ pc = "sanity1"
    /\ riskPercent' = Sanity1(loc, riskPercent)
    /\ pc' = "sanity2"
    /\ UNCHANGED <<payload, loc, ret>>
    /\ UNCHANGED <<serverVars, analyzerVars, wizardVars,
                 authVars, browserVars>>

ApplySanity2 ==
    /\ pc = "sanity2"
    /\ riskPercent' = Sanity2(loc, riskPercent)
    /\ pc' = "sanity3"
    /\ UNCHANGED <<payload, loc, ret>>
    /\ UNCHANGED <<serverVars, analyzerVars, wizardVars,
                 authVars, browserVars>>

ApplySanity3 ==
    /\ pc = "sanity3"
    /\ riskPercent' = Sanity3(loc, riskPercent)
    /\ pc' = "return"
    /\ UNCHANGED <<payload, loc, ret>>
    /\ UNCHANGED <<serverVars, analyzerVars, wizardVars,
                 authVars, browserVars>>

\* lines 255-286: level, breakdown, tips
Return ==
    /\ pc = "return"
    /\ ret' = Result(loc, riskPercent)
    /\ pc' = "done"
    /\ UNCHANGED <<payload, loc, riskPercent>>
    /\ UNCHANGED <<serverVars, analyzerVars, wizardVars,
                 authVars, browserVars>>

Next == Enter \/ ApplySanity1 \/ ApplySanity2 \/ ApplySanity3 \/ Return

Spec == Init /\ [][Next]_vars

\* doseScore: applied and recommended doses of every kind, nothing else set
DoseAppliedVals ==
    AppliedVals \cup {Absent, Null, NaNv, Infv, Str,
                      Num(1), Num(2), Num(3), Num(20), Num(30)}
DoseRecVals ==
    {Absent, Null, NaNv, Infv, Str, Num(-10), Num(0), Num(1), Num(2), Num(10)}
DosePayloads ==
    { Grouped(InputsObj(a, r, Absent, Absent, Absent, Absent, Absent),
              Absent, Absent) :
        a \in DoseAppliedVals, r \in DoseRecVals }

InitDose == Start(DosePayloads)
SpecDose == InitDose /\ [][Next]_vars

\* computeAiContribution: stress, confidence and days of every kind
AiStressVals == {Absent, Null} \cup {Num(5 * k) : k \in 0..MaxStressSteps}
AiConfidenceVals == {Absent} \cup {Num(10 * k) : k \in 0..10}
AiDaysVals == {Absent, Num(0), Num(6), Num(7), Num(13), Num(14), Num(30)}
AiPayloads ==
    { Grouped(InputsObj(Num(10), Num(10), d, Num(5), Absent, Absent, Absent),
              Absent, AiObj(st, cf)) :
        st \in AiStressVals, cf \in AiConfidenceVals, d \in AiDaysVals }

InitAi == Start(AiPayloads)
SpecAi == InitAi /\ [][Next]_vars

\* the shapes of the argument: undefined, null, primitives, an empty object,
\* flat payloads, groups that are missing or null, fields of every kind
FieldVals == {Absent, Null, Str, NaNv, Num(-5), Num(10)}
GroupVals(objs) == {Absent, Null} \cup objs
ShapePayloads ==
    {Undef, Null, EmptyObj, Num(0), Num(5), Str, NaNv}
    \cup { InputsObj(a, r, d, Num(5), Absent, lp, m) :
              a \in FieldVals, r \in FieldVals, d \in FieldVals,
              lp \in {Absent, Null, Str}, m \in FieldVals }
    \cup { Grouped(i, w, a) :
              i \in GroupVals({InputsObj(Num(10), Num(10), Num(3), Num(5),
                                         Absent, Absent, Absent)}),
              w \in GroupVals({WeatherObj(tc, hu, Absent, Absent) :
                                 tc \in FieldVals, hu \in FieldVals}),
              a \in GroupVals({AiObj(st, cf) :
                                 st \in FieldVals, cf \in FieldVals}) }

InitShapes == Start(ShapePayloads)
SpecShapes == InitShapes /\ [][Next]_vars

(***************************************************************************)
(* Properties                                                              *)
(***************************************************************************)
\* round(100 * clamp(baseScore + aiContribution, 0, 1)) of the locals
FusionPercent(l) == pct(clamp(Num(l.base + l.aiContribution), 0, FUSE))

\* some sanity rule's guard holds on the way from the fusion percent
AnyGuard(l) ==
    \/ Sanity1Guard(l, FusionPercent(l))
    \/ Sanity2Guard(l)
    \/ Sanity3Guard(l)

\* C1: the returned riskPercent is an integer in 0..100 and the returned
\* level is the band of that final riskPercent: Low iff <= 30, Medium iff
\* 31..60, High iff > 60.
C1_PercentAndLevel ==
    pc = "done" =>
        /\ ret.riskPercent \in 0..100
        /\ ret.riskPercent = riskPercent
        /\ (ret.level = "Low") <=> (ret.riskPercent <= 30)
        /\ (ret.level = "Medium") <=> (ret.riskPercent >= 31 /\ ret.riskPercent <= 60)
        /\ (ret.level = "High") <=> (ret.riskPercent > 60)

\* a call whose fusion percent is in the High band and whose returned
\* percent, lowered by a sanity rule, is in the Medium band
C1_Witness ==
    /\ pc = "done"
    /\ FusionPercent(loc) > 60
    /\ ret.riskPercent <= 60
    /\ ret.level = "Medium"

\* C2: the sanity rules only lower: the returned riskPercent is at most the
\* fusion percent, and equals it when none of the three guards holds.
C2_SanityOnlyLowers ==
    /\ pc \in {"sanity1", "sanity2", "sanity3", "return", "done"} =>
           riskPercent <= FusionPercent(loc)
    /\ pc = "done" =>
           /\ ret.riskPercent <= FusionPercent(loc)
           /\ ~AnyGuard(loc) => ret.riskPercent = FusionPercent(loc)

\* a call that returned less than its fusion percent
C2_Witness ==
    /\ pc = "done"
    /\ AnyGuard(loc)
    /\ ret.riskPercent < FusionPercent(loc)

\* C3: when doseScore < 0.2 and decayScore < 0.2 the returned riskPercent
\* is at most 45 and the level is not High, whatever the other fields are.
C3_LowDoseDecayCap ==
    (pc = "done" /\ loc.sDose < 200000 /\ loc.sDecay < 200000) =>
        /\ ret.riskPercent <= 45
        /\ ret.level # "High"

\* a call with both scores under 0.2 whose fusion percent is in the High band
C3_Witness ==
    /\ pc = "done"
    /\ loc.sDose < 200000 /\ loc.sDecay < 200000
    /\ FusionPercent(loc) > 60
    /\ ret.riskPercent = 45

\* the payload named by the claim: applied 0, recommended 10, 60 days, half-life 3
C3_NamedPayloadReached ==
    /\ pc = "done"
    /\ Get(Get(payload, "inputs"), "appliedDose") = Num(0)
    /\ Get(Get(payload, "inputs"), "recommendedDose") = Num(10)
    /\ Get(Get(payload, "inputs"), "daysSinceSpray") = Num(60)
    /\ Get(Get(payload, "inputs"), "halfLifeDays") = Num(3)
    /\ Get(Get(payload, "ai"), "stressScore") = Num(100)

\* C6: every entry of the returned breakdown is inside its range: the five
\* component scores, baseScore and totalScore in [0,1], aiContribution in
\* [0,0.25].
C6_BreakdownRanges ==
    pc = "done" =>
        LET b == ret.breakdown
        IN /\ b.doseScore >= 0 /\ b.doseScore <= SCALE
           /\ b.decayScore >= 0 /\ b.decayScore <= SCALE
           /\ b.phScore >= 0 /\ b.phScore <= SCALE
           /\ b.moistureScore >= 0 /\ b.moistureScore <= SCALE
           /\ b.weatherScore >= 0 /\ b.weatherScore <= SCALE
           /\ b.baseScore >= 0 /\ b.baseScore <= FUSE
           /\ b.totalScore >= 0 /\ b.totalScore <= FUSE
           /\ b.aiContribution >= 0 /\ b.aiContribution <= FUSE \div 4

\* a call whose weather sum is above 1 (negative rainfall) and whose dose
\* is above the recommendation
C6_Witness ==
    /\ pc = "done"
    /\ WeatherSum(loc.weather) > SCALE
    /\ ret.breakdown.weatherScore = SCALE
    /\ ret.breakdown.doseScore > 700000
    /\ ret.breakdown.aiContribution > 0

\* C7: the end-to-end scenario (applied 1, recommended 1, 0 days, half-life
\* 5, no weather, no ai) returns decayScore 1, doseScore 0.70, moistureScore
\* 0.35, phScore 0.25, weatherScore 0.35, aiContribution 0, baseScore 0.571,
\* riskPercent 57 and level Medium, and no sanity rule fires.
C7_Scenario ==
    (pc = "done" /\ payload = ScenarioPayload) =>
        /\ ret.breakdown.decayScore = SCALE
        /\ ret.breakdown.doseScore = 700000
        /\ ret.breakdown.moistureScore = 350000
        /\ ret.breakdown.phScore = 250000
        /\ ret.breakdown.weatherScore = 350000
        /\ ret.breakdown.aiContribution = 0
        /\ ret.breakdown.baseScore = 571 * (FUSE \div 1000)
        /\ ret.riskPercent = 57
        /\ ret.level = "Medium"
        /\ ~AnyGuard(loc)

\* the scenario has returned
C7_Witness == pc = "done" /\ payload = ScenarioPayload /\ ret.t = "obj"

\* round(100 * x) for an x in units of 1/FUSE
Percent(x) == (x + FUSE \div 200) \div (FUSE \div 100)

\* C8 as stated: round(100 * breakdown.totalScore) is the fusion percent
\* round(100 * clamp(baseScore + aiContribution, 0, 1)) for every payload,
\* also when a sanity rule lowered riskPercent.
C8_TotalScoreIsFusionTotal ==
    pc = "done" =>
        Percent(ret.breakdown.totalScore)
            = Percent(clamp(Num(ret.breakdown.baseScore
                                + ret.breakdown.aiContribution), 0, FUSE))

\* C8 amended: breakdown.totalScore is the final riskPercent / 100; it is
\* the fusion total exactly when no sanity rule lowered riskPercent and is
\* below it otherwise.
C8_TotalScoreIsFinalPercent ==
    pc = "done" =>
        LET b == ret.breakdown
            fusion == Percent(clamp(Num(b.baseScore + b.aiContribution), 0, FUSE))
        IN /\ b.totalScore = ret.riskPercent * (FUSE \div 100)
           /\ Percent(b.totalScore) = ret.riskPercent
           /\ Percent(b.totalScore) <= fusion
           /\ (Percent(b.totalScore) = fusion) <=> (riskPercent = pct(loc.total01))

\* a call in which a sanity rule lowered riskPercent, so that totalScore is
\* below the fusion total
C8_Witness ==
    /\ pc = "done"
    /\ ret.riskPercent < pct(loc.total01)
    /\ ret.breakdown.totalScore < loc.total01
    /\ ret.breakdown.totalScore > 0

\* the recommended dose is a finite number above 0
RecPositive(l) == ToNumber(l.recommendedDose).t = "num" /\ ToNumber(l.recommendedDose).v > 0

C5_AiContribution ==
    pc = "done" =>
        LET ai == ret.breakdown.aiContribution
            st == loc.aiStress
        IN /\ ai >= 0 /\ ai <= FUSE \div 4
           /\ st.t \in {"undefined", "null"} => ai = 0
           /\ (st.t = "num" /\ st.v > 0) => ai > 0

\* a stress score above 0 at confidence 0 has contributed
C5_Witness ==
    /\ pc = "done"
    /\ loc.aiStress = Num(5)
    /\ loc.aiConfidence = Num(0)
    /\ ret.breakdown.aiContribution > 0

\* C9: calculateRisk never raises and returns {riskPercent, level,
\* breakdown, tips} for every argument.
C9_Total ==
    /\ pc # "thrown"
    /\ pc = "done" =>
           /\ ret.t = "obj"
           /\ {"riskPercent", "level", "breakdown", "tips"} \subseteq DOMAIN ret

\* the aliases of the canonical field names, per group
Aliases ==
    { <<"inputs", "appliedDose", "dose">>, <<"inputs", "appliedDose", "userDose">>,
      <<"inputs", "recommendedDose", "recDose">>,
      <<"inputs", "recommendedDose", "recommended">>,
      <<"inputs", "daysSinceSpray", "days">>, <<"inputs", "daysSinceSpray", "sprayDays">>,
      <<"inputs", "halfLifeDays", "halfLife">>, <<"inputs", "halfLifeDays", "halflife">>,
      <<"inputs", "leafPh", "leafPH">>, <<"inputs", "soilPh", "soilPH">>,
      <<"weather", "tempC", "temperatureC">>, <<"weather", "tempC", "temperature">>,
      <<"weather", "humidity", "humidityPct">>,
      <<"weather", "rainfallMm", "rainMm">>, <<"weather", "rainfallMm", "rain">>,
      <<"weather", "windKph", "windSpeedKph">>, <<"weather", "windKph", "wind">>,
      <<"ai", "stressScore", "imageStress">> }

\* the object o with its property from renamed to to
RenameKey(o, from, to) ==
    Obj([k \in (DOMAIN o.o \ {from}) \cup {to} |->
            IF k = to THEN o.o[from] ELSE o.o[k]])

HasField(p, al) ==
    /\ p.t = "obj" /\ al[1] \in DOMAIN p.o
    /\ p.o[al[1]].t = "obj" /\ al[2] \in DOMAIN p.o[al[1]].o

\* the payload p with the canonical field of al renamed to its alias
Rename(p, al) ==
    Obj([p.o EXCEPT ![al[1]] = RenameKey(p.o[al[1]], al[2], al[3])])

\* C10: renaming a canonical field of the payload to one of its aliases
\* gives the identical result: riskPercent, level, breakdown and tips.
C10_AliasEquivalence ==
    pc = "done" =>
        \A al \in Aliases :
            HasField(payload, al) => calculateRisk(Rename(payload, al)) = ret

\* every alias but weather.humidityPct gives the identical result
C10_AliasesButHumidity ==
    pc = "done" =>
        \A al \in Aliases \ {<<"weather", "humidity", "humidityPct">>} :
            HasField(payload, al) => calculateRisk(Rename(payload, al)) = ret

\* only the null argument raises
C9_OnlyNullRaises == pc = "thrown" <=> (pc # "call" /\ payload = Null)

(***************************************************************************)
(* The scan endpoints (server/index.js and the scan router)                *)
(***************************************************************************)
\* a media type "major/minor"; startsWith("image/") reads the major part
Mime(major, minor) == [major |-> major, minor |-> minor]
StartsWithImage(m) == m.major = "image"

NoFile == [t |-> "nofile"]
NotScored == [t |-> "not-invoked"]
\* the scoring function was called with arg
Scored(fn, arg) == [t |-> "invoked", fn |-> fn, arg |-> arg]

Reply(status, body) == [status |-> status, body |-> body]
ErrorBody(msg) == [error |-> msg]

\* multer: limits.fileSize
UPLOAD_LIMIT == 8 * 1024 * 1024

\* toNumber(v): Number(v) when finite, NaN otherwise
toNumber(v) ==
    LET n == ToNumber(v)
    IN IF IsFinite(n) THEN n ELSE NaNv

\* x > 0 for a number value x (false for NaN)
Positive(x) == x.t = "inf" \/ (x.t = "num" /\ x.v > 0)

LEVEL_HIGH_MIN == 70
LEVEL_MEDIUM_MIN == 35
\* the source's string is an em dash
LEVEL_NONE == "-"

\* riskLevelFromPercent(p), p a number value
riskLevelFromPercent(p) ==
    IF ~IsFinite(p) THEN LEVEL_NONE
    ELSE IF p.v >= LEVEL_HIGH_MIN THEN "High"
    ELSE IF p.v >= LEVEL_MEDIUM_MIN THEN "Medium"
    ELSE "Low"

\* clamp01(x), x in units of 1/SCALE
clamp01(x) == Min(SCALE, Max(0, x))

RESIDUE_DEFAULT == 600000
SERVER_SCORE_DEFAULT == 200000
IMAGE_STRESS_DEFAULT == 250000

SERVER_TIP_HIGH ==
    "High risk detected: avoid immediate harvest and consider expert guidance."
SERVER_TIP_MODERATE ==
    "Moderate risk: monitor plant response and avoid over-application."
SERVER_TIP_LOW == "Low risk: continue monitoring and follow label instructions."
SERVER_TIP_DOSE ==
    "Dose seems high relative to recommended. Reduce dose next spray if possible."
SERVER_TIP_RECENT == "Recent spray detected. Risk may drop after a few more days."
SERVER_TIP_WEATHER ==
    "Weather stress is high (heat/humidity/rain). Prefer spraying in cooler, calmer conditions."
SERVER_TIP_STRESS ==
    "Leaf appears stressed. Avoid additional stress (over-spraying, midday spraying)."
SERVER_TIP_ALWAYS ==
    "Always follow label safety intervals and wear protection while spraying."

\* the tip when the condition holds, nothing otherwise
TipIf(cond, tip) == IF cond THEN <<tip>> ELSE <<>>

\* buildTips: riskPercent an integer, the scores in units of 1/SCALE
buildTips(rp, doseScore0, residueFactor, weatherScore0, imageStressScore) ==
    LET tips ==
            TipIf(rp >= 70, SERVER_TIP_HIGH)
            \o TipIf(rp >= 35 /\ rp < 70, SERVER_TIP_MODERATE)
            \o TipIf(rp < 35, SERVER_TIP_LOW)
            \o TipIf(doseScore0 > 650000, SERVER_TIP_DOSE)
            \o TipIf(residueFactor > 650000, SERVER_TIP_RECENT)
            \o TipIf(weatherScore0 > 600000, SERVER_TIP_WEATHER)
            \o TipIf(imageStressScore > 600000, SERVER_TIP_STRESS)
            \o <<SERVER_TIP_ALWAYS>>
    IN SubSeq(tips, 1, Min(Len(tips), 8))

\* computeRisk(inputs), the placeholder scoring of the server, for an inputs
\* object whose recommendedDose is finite (the handler calls it only then)
computeRisk(inputs) ==
    LET recommendedDose == toNumber(Get(inputs, "recommendedDose"))
        daysSinceSpray == toNumber(Get(inputs, "daysSinceSpray"))
        halfLifeDays == toNumber(Get(inputs, "halfLifeDays"))
        leafPh == toNumber(Get(inputs, "leafPh"))
        soilPh == toNumber(Get(inputs, "soilPh"))
        soilMoisture == toNumber(Get(inputs, "soilMoisture"))
        imageStress == toNumber(Get(inputs, "imageStress"))
        tempC == toNumber(Get(Get(inputs, "weather"), "tempC"))
        humidity == toNumber(Get(Get(inputs, "weather"), "humidity"))
        rainMm24h == toNumber(Get(Get(inputs, "weather"), "rainMm24h"))
        doseScore0 ==
            clamp01(RoundDiv((recommendedDose.v - 1) * SCALE, 3) + 400000)
        residueFactor ==
            IF IsFinite(daysSinceSpray) /\ IsFinite(halfLifeDays)
               /\ halfLifeDays.v > 0
            THEN clamp01(ExpDecay(daysSinceSpray.v, halfLifeDays.v))
            ELSE RESIDUE_DEFAULT
        leafPhScore ==
            IF IsFinite(leafPh)
            THEN clamp01(RoundDiv(Abs(65 - 10 * leafPh.v) * SCALE, 30))
            ELSE SERVER_SCORE_DEFAULT
        soilPhScore ==
            IF IsFinite(soilPh)
            THEN clamp01(RoundDiv(Abs(68 - 10 * soilPh.v) * SCALE, 30))
            ELSE SERVER_SCORE_DEFAULT
        moistureScore0 ==
            IF IsFinite(soilMoisture)
            THEN clamp01(RoundDiv(Abs(55 - soilMoisture.v) * SCALE, 55))
            ELSE SERVER_SCORE_DEFAULT
        t == IF IsFinite(tempC)
             THEN clamp01(RoundDiv((tempC.v - 25) * SCALE, 15))
             ELSE SERVER_SCORE_DEFAULT
        h == IF IsFinite(humidity)
             THEN clamp01(RoundDiv((humidity.v - 55) * SCALE, 40))
             ELSE SERVER_SCORE_DEFAULT
        r == IF IsFinite(rainMm24h)
             THEN clamp01(RoundDiv(rainMm24h.v * SCALE, 80))
             ELSE 0
        weatherScore0 ==
            IF IsFinite(tempC) \/ IsFinite(humidity) \/ IsFinite(rainMm24h)
            THEN clamp01(RoundDiv(55 * t + 35 * h + 10 * r, 100))
            ELSE SERVER_SCORE_DEFAULT
        imageStressScore ==
            IF IsFinite(imageStress)
            THEN clamp01(RoundDiv(imageStress.v * SCALE, 100))
            ELSE IMAGE_STRESS_DEFAULT
        \* 100 * risk01
        risk == 22 * doseScore0 + 24 * residueFactor + 14 * leafPhScore
                + 10 * soilPhScore + 10 * moistureScore0 + 10 * weatherScore0
                + 10 * imageStressScore
        \* Math.round(clamp01(risk01) * 100)
        riskPct == RoundDiv(Min(100 * SCALE, Max(0, risk)), SCALE)
    IN [riskPercent |-> riskPct,
        level |-> riskLevelFromPercent(Num(riskPct)),
        breakdown |->
            [doseScore |-> doseScore0, residueFactor |-> residueFactor,
             leafPhScore |-> leafPhScore, soilPhScore |-> soilPhScore,
             moistureScore |-> moistureScore0, weatherScore |-> weatherScore0,
             imageStressScore |-> imageStressScore],
        tips |-> buildTips(riskPct, doseScore0, residueFactor, weatherScore0,
                           imageStressScore)]

DOSE_ERROR == "recommendedDose is required and must be > 0"

\* res.status(400).json({ error }) without calling the scoring function
Reject(status, msg) ==
    [res |-> Reply(status, ErrorBody(msg)), scored |-> NotScored]

\* the handler of app.post("/api/scan") behind multer's upload.single: the
\* response and the call of the scoring function, for the request r
ScanRoute(r) ==
    IF r.file # NoFile /\ r.file.size > UPLOAD_LIMIT
    THEN Reject(500, "Server error.")
    ELSE IF r.file = NoFile THEN Reject(400, "Leaf image is required.")
    ELSE IF ~StartsWithImage(r.file.mimetype)
    THEN Reject(400, "Invalid file type. Please upload an image.")
    ELSE LET raw == Get(r.body, "inputs")
         IN IF ~Truthy(raw) THEN Reject(400, "inputs is required.")
            ELSE IF raw.t = "str" THEN Reject(400, "Invalid inputs JSON.")
            ELSE LET inputs == IF raw.t = "json" THEN raw.v ELSE raw
                     recommendedDose == toNumber(Get(inputs, "recommendedDose"))
                     out == computeRisk(inputs)
                 IN IF ~Positive(recommendedDose) THEN Reject(400, DOSE_ERROR)
                    ELSE [res |->
                            Reply(200,
                              [riskPercent |-> out.riskPercent,
                               level |-> out.level,
                               breakdown |-> out.breakdown,
                               tips |-> out.tips,
                               meta |->
                                 [received |->
                                    [crop |-> Get(inputs, "crop"),
                                     pesticide |-> Get(inputs, "pesticide"),
                                     recommendedDose |->
                                        Get(inputs, "recommendedDose")],
                                  file |-> r.file]]),
                          scored |-> Scored("computeRisk", inputs)]

\* Number(x) <= 0
NonPositive(x) == x.t = "num" /\ x.v <= 0

\* the handler of router.post("/").  The router imports the scoring function
\* of shared/risk.js, whose export is calculateRisk.
RouterRoute(r) ==
    LET p == Or(r.body, EmptyObj)
        rd == Get(p, "recommendedDose")
    IN IF ~Truthy(rd) \/ NonPositive(ToNumber(rd)) THEN Reject(400, DOSE_ERROR)
       ELSE IF Throws(p)
       THEN [res |-> Reply(500, ErrorBody("Internal server error")),
             scored |-> Scored("calculateRisk", p)]
       ELSE [res |-> Reply(200, calculateRisk(p)),
             scored |-> Scored("calculateRisk", p)]

\* the inputs object the scan wizard sends
UiInputs(rd, d, h, lp, sp, sm, w, st) ==
    MkObj([crop |-> Str, pesticide |-> Str, recommendedDose |-> rd,
           daysSinceSpray |-> d, halfLifeDays |-> h, leafPh |-> lp,
           soilPh |-> sp, soilMoisture |-> sm, weather |-> w, imageStress |-> st])

UiWeather(tc, hu, rn) == MkObj([tempC |-> tc, humidity |-> hu, rainMm24h |-> rn])

UploadedFiles ==
    { NoFile,
      [mimetype |-> Mime("image", "png"), size |-> 200 * 1024],
      [mimetype |-> Mime("text", "plain"), size |-> 1024],
      [mimetype |-> Mime("image", "jpeg"), size |-> UPLOAD_LIMIT + 1] }

ServerDoseVals == {Absent, Null, Str, Num(-1), Num(0), Num(1), Num(2), Num(4)}
ServerEnv ==
    { [lp |-> Absent, sp |-> Absent, sm |-> Absent, w |-> Absent, st |-> Absent],
      [lp |-> Num(7), sp |-> Num(7), sm |-> Num(55),
       w |-> UiWeather(Num(25), Num(55), Num(0)), st |-> Num(0)],
      [lp |-> Num(4), sp |-> Num(10), sm |-> Num(5),
       w |-> UiWeather(Num(40), Num(95), Num(80)), st |-> Num(90)],
      [lp |-> Num(6), sp |-> Num(6), sm |-> Num(40),
       w |-> UiWeather(Num(32), Absent, Num(20)), st |-> Num(40)] }

ScanInputs ==
    { UiInputs(rd, d, h, e.lp, e.sp, e.sm, e.w, e.st) :
        rd \in ServerDoseVals, d \in {Absent, Num(0), Num(3), Num(30)},
        h \in {Absent, Num(5)}, e \in ServerEnv }

\* requests of POST /api/scan: multipart fields arrive as strings
ScanRequests ==
    { [route |-> "scan", file |-> f, body |-> MkObj([inputs |-> i])] :
        f \in UploadedFiles,
        i \in {Absent, Str, Json(Null), Json(Num(5))}
              \cup {Json(x) : x \in ScanInputs} }

RouterFlat ==
    { MkObj([appliedDose |-> a, recommendedDose |-> rd, daysSinceSpray |-> Num(3),
             halfLifeDays |-> Num(5), inputs |-> i]) :
        a \in {Absent, Num(10)},
        rd \in ServerDoseVals \cup {Num(10)},
        i \in {Absent}
              \cup { InputsObj(Num(10), r, Num(3), Num(5), Absent, Absent, Absent) :
                       r \in {Absent, Str, Num(0), Num(10)} } }

\* requests of the scan router: a JSON body, or none
RouterRequests ==
    { [route |-> "router", file |-> NoFile, body |-> b] :
        b \in {Undef, EmptyObj} \cup RouterFlat }

InitServer ==
    /\ req \in ScanRequests \cup RouterRequests
    /\ res = Pending
    /\ scored = NotScored
    /\ EngineIdle /\ AnalyzerIdle /\ WizardIdle /\ AuthIdle /\ BrowserIdle

\* POST /api/scan of server/index.js
PostScan ==
    /\ req.route = "scan"
    /\ res = Pending
    /\ res' = ScanRoute(req).res
    /\ scored' = ScanRoute(req).scored
    /\ UNCHANGED <<req, engineVars, analyzerVars, wizardVars,
                 authVars, browserVars>>

\* POST / of the scan router
PostRouter ==
    /\ req.route = "router"
    /\ res = Pending
    /\ res' = RouterRoute(req).res
    /\ scored' = RouterRoute(req).scored
    /\ UNCHANGED <<req, engineVars, analyzerVars, wizardVars,
                 authVars, browserVars>>

NextServer == PostScan \/ PostRouter

SpecServer == InitServer /\ [][NextServer]_vars

(***************************************************************************)
(* Properties of the scan endpoints                                        *)
(***************************************************************************)
PositiveFinite(x) == x.t = "num" /\ x.v > 0

\* the recommendedDose that the scoring function fn reads from its argument
DoseRead(fn, arg) ==
    IF fn = "computeRisk" THEN ToNumber(Get(arg, "recommendedDose"))
    ELSE ToNumber(Locals(arg).recommendedDose)

\* the argument the handler of the request r hands to its scoring function
ScorerArgument(r) ==
    IF r.route = "router" THEN Or(r.body, EmptyObj)
    ELSE LET raw == Get(r.body, "inputs")
         IN IF raw.t = "json" THEN raw.v ELSE raw

ScorerOf(r) == IF r.route = "router" THEN "calculateRisk" ELSE "computeRisk"

\* C11: the scan endpoint validates recommendedDose before scoring: for every
\* request, the scoring function is invoked only if the recommendedDose that
\* the scoring function itself reads from its argument is a finite number > 0.
C11_ScoredOnlyWithValidDose ==
    scored.t = "invoked" => PositiveFinite(DoseRead(scored.fn, scored.arg))

\* the second half of C11: a request whose payload gives the scoring function
\* any other value is answered 400 "recommendedDose is required and must be
\* > 0" without invoking it
C11_InvalidDoseAnswered400 ==
    (/\ res # Pending
     /\ ~PositiveFinite(DoseRead(ScorerOf(req), ScorerArgument(req))))
    => res = Reply(400, ErrorBody(DOSE_ERROR)) /\ scored = NotScored

\* POST /api/scan of server/index.js calls computeRisk only with a finite
\* recommendedDose > 0: there the validator and the scoring function read the
\* same property of the same object
C11_ScanEndpointValidates ==
    (req.route = "scan" /\ scored.t = "invoked")
    => PositiveFinite(DoseRead(scored.fn, scored.arg))

\* the router has scored a payload whose inputs.recommendedDose is 0, after
\* validating the top-level recommendedDose = 10
C11_NestedDoseScored ==
    /\ req.route = "router"
    /\ Get(req.body, "recommendedDose") = Num(10)
    /\ Get(Get(req.body, "inputs"), "recommendedDose") = Num(0)
    /\ scored.t = "invoked"
    /\ res.status = 200

\* C12: the scan endpoint relays the Risk Scoring Engine's output verbatim.
\* Every 200 response of POST /api/scan carries the riskPercent, level,
\* breakdown and tips that calculateRisk produces for the same inputs, so its
\* level follows <= 30 Low, <= 60 Medium, else High and its breakdown has the
\* keys of the engine's breakdown.
C12_RelaysEngineOutput ==
    (req.route = "scan" /\ res # Pending /\ res.status = 200)
    => LET engine == calculateRisk(scored.arg)
       IN /\ res.body.riskPercent = engine.riskPercent
          /\ res.body.level = engine.level
          /\ res.body.level = labelFromPercent(res.body.riskPercent)
          /\ DOMAIN res.body.breakdown =
                {"doseScore", "decayScore", "weatherScore", "moistureScore",
                 "phScore", "aiContribution", "baseScore", "totalScore"}
          /\ res.body.tips = engine.tips

\* what every 200 response of POST /api/scan does carry: the output of the
\* server's own computeRisk, with the level bands >= 70 High, >= 35 Medium
C12_RelaysPlaceholderOutput ==
    (req.route = "scan" /\ res # Pending /\ res.status = 200)
    => LET out == computeRisk(scored.arg)
       IN /\ res.body.riskPercent = out.riskPercent
          /\ res.body.level = riskLevelFromPercent(Num(res.body.riskPercent))
          /\ res.body.breakdown = out.breakdown
          /\ res.body.tips = out.tips

\* a 200 response whose level differs from the engine's bands: 31..34 is Low
\* for the server and Medium for the engine
C12_LevelBandsDiffer ==
    /\ req.route = "scan" /\ res # Pending /\ res.status = 200
    /\ res.body.riskPercent > LOW_MAX
    /\ res.body.level = "Low"

(***************************************************************************)
(* The Leaf Photo Analyzer (leafVision.js)                                 *)
(*                                                                         *)
(* A colour is a record [r, g, b] of bytes.  Ratios of pixel counts are    *)
(* compared exactly, by cross-multiplication; hue is kept as the fraction  *)
(* hn / hd of degrees, saturation as d / max, value as max / 255.  The     *)
(* grey levels are in units of 1/10000 and the Laplacian variance in       *)
(* units of 1/100.  The rounding of doubles and of the Float32Array of     *)
(* grey levels is not modelled.                                            *)
(***************************************************************************)
\* floor(v * n / d) for v >= 0, 0 <= n <= d and d > 0, without forming the
\* product v * n
Share(v, n, d) == (v \div d) * n + ((v % d) * n) \div d

\* the same for a v of either sign, rounded toward zero
SignedShare(v, n, d) == IF v >= 0 THEN Share(v, n, d) ELSE -Share(-v, n, d)

\* floor(100000 * n / d) for n >= 0 and d > 0, without forming the product
Over(n, d) ==
    LET r == 1000 * (n % d)
    IN 100000 * (n \div d) + 100 * (r \div d) + (100 * (r % d)) \div d

\* x * x / 100 for x >= 0, rounded
SquareOver100(x) ==
    (x \div 10) * (x \div 10)
    + RoundDiv(20 * (x \div 10) * (x % 10) + (x % 10) * (x % 10), 100)

Max3(a, b, c) == Max(a, Max(b, c))
Min3(a, b, c) == Min(a, Min(b, c))

\* rgbToHsv(r, g, b): hue = hn / hd degrees, s = d / max, v = max / 255
rgbToHsv(c) ==
    LET max == Max3(c.r, c.g, c.b)
        min == Min3(c.r, c.g, c.b)
        d == max - min
        h6 == IF d = 0 THEN 0
              ELSE IF max = c.r THEN 60 * (c.g - c.b)
              ELSE IF max = c.g THEN 60 * (c.b - c.r) + 120 * d
              ELSE 60 * (c.r - c.g) + 240 * d
    IN [hn |-> IF h6 < 0 THEN h6 + 360 * d ELSE h6,
        hd |-> IF d = 0 THEN 1 ELSE d,
        d |-> d, max |-> max]

\* hh >= k, hh < k, hh <= k for a whole number k of degrees
HueGE(p, k) == p.hn >= k * p.hd
HueLT(p, k) == p.hn < k * p.hd
HueLE(p, k) == p.hn <= k * p.hd
\* s > k / 100, s < k / 100 (s is 0 when max is 0)
SatGT(p, k) == 100 * p.d > k * p.max
SatLT(p, k) == IF p.max = 0 THEN 0 < k ELSE 100 * p.d < k * p.max
\* v > k / 100, v < k / 100
ValGT(p, k) == 100 * p.max > k * 255
ValLT(p, k) == 100 * p.max < k * 255

\* the classes of one pixel (lines 1478-1495)
isSatLow(c) == SatLT(rgbToHsv(c), 8)
isLeafLike(c) ==
    LET p == rgbToHsv(c)
    IN HueGE(p, 55) /\ HueLE(p, 170) /\ SatGT(p, 18) /\ ValGT(p, 12)
isGreen(c) ==
    LET p == rgbToHsv(c)
    IN HueGE(p, 70) /\ HueLE(p, 160) /\ SatGT(p, 22) /\ ValGT(p, 14)
isYellow(c) ==
    LET p == rgbToHsv(c)
    IN HueGE(p, 35) /\ HueLT(p, 70) /\ SatGT(p, 18) /\ ValGT(p, 18)
isBrown(c) ==
    LET p == rgbToHsv(c)
    IN /\ (HueGE(p, 10) /\ HueLT(p, 35)) \/ (HueGE(p, 0) /\ HueLT(p, 10))
       /\ SatGT(p, 16) /\ ValGT(p, 10)
isDark(c) ==
    LET p == rgbToHsv(c)
    IN ValLT(p, 22) /\ SatGT(p, 12)
isDarkSpot(c) == isLeafLike(c) /\ isDark(c)

\* gr = 0.2126 * r + 0.7152 * g + 0.0722 * b, in units of 1/10000
Gray(c) == 2126 * c.r + 7152 * c.g + 722 * c.b

\* getImageData(img, maxSide): the size of the canvas the picture is drawn to
MAX_SIDE == 360

\* mutant: a side that rounds to 0 is not brought back up to 1
getImageDataNoFloor(img) ==
    LET longer == Max(img.width, img.height)
    IN [w |-> IF longer <= MAX_SIDE THEN img.width
              ELSE RoundDiv(img.width * MAX_SIDE, longer),
        h |-> IF longer <= MAX_SIDE THEN img.height
              ELSE RoundDiv(img.height * MAX_SIDE, longer),
        tile |-> img.tile]

getImageData(img) ==
    LET longer == Max(img.width, img.height)
    IN [w |-> Max(1, IF longer <= MAX_SIDE THEN img.width
                     ELSE RoundDiv(img.width * MAX_SIDE, longer)),
        h |-> Max(1, IF longer <= MAX_SIDE THEN img.height
                     ELSE RoundDiv(img.height * MAX_SIDE, longer)),
        tile |-> img.tile]

\* The pixels the canvas hands back.  A picture is described by a 2 x 2 tile
\* of colours that its buffer repeats: the pixel at (x, y) has the colour
\* tile[TileIndex(x % 2, y % 2)].
TileIndex(px, py) == 2 * py + px + 1
Parities == {0, 1}
Classes == Parities \X Parities

\* how many of lo..hi have parity p
ParityCount(lo, hi, p) ==
    IF hi < lo THEN 0
    ELSE IF lo % 2 = p THEN (hi - lo + 2) \div 2
    ELSE (hi - lo + 1) \div 2

\* how many pixels (x, y) with x0 <= x <= x1 and y0 <= y <= y1 are of class k
ClassCount(x0, x1, y0, y1, k) ==
    ParityCount(x0, x1, k[1]) * ParityCount(y0, y1, k[2])

\* f[k] summed over the four classes
SumClasses(f) == f[<<0, 0>>] + f[<<1, 0>>] + f[<<0, 1>>] + f[<<1, 1>>]

\* edgeBand of a w x h buffer
EdgeBand(w, h) == Max(2, RoundDiv(Min(w, h), 10))

\* the number of pixels of class k of the buffer: all of them, those outside
\* the edge band, and those in it
AllOf(buf, k) == ClassCount(0, buf.w - 1, 0, buf.h - 1, k)
InnerOf(buf, k) ==
    LET eb == EdgeBand(buf.w, buf.h)
    IN ClassCount(eb, buf.w - eb - 1, eb, buf.h - eb - 1, k)
EdgeOf(buf, k) == AllOf(buf, k) - InnerOf(buf, k)

\* a counter of the pixel loop: the pixels whose colour is of the class is,
\* in the whole buffer and in its edge band
CountAll(buf, is(_)) ==
    SumClasses([k \in Classes |->
        IF is(buf.tile[TileIndex(k[1], k[2])]) THEN AllOf(buf, k) ELSE 0])
CountEdge(buf, is(_)) ==
    SumClasses([k \in Classes |->
        IF is(buf.tile[TileIndex(k[1], k[2])]) THEN EdgeOf(buf, k) ELSE 0])

\* 4 * c - (n + s + e + wv) at a pixel of class k, in units of 1/10000: the
\* neighbours above and below have the other row parity, those left and
\* right the other column parity
Laplacian(buf, k) ==
    4 * Gray(buf.tile[TileIndex(k[1], k[2])])
    - 2 * Gray(buf.tile[TileIndex(k[1], 1 - k[2])])
    - 2 * Gray(buf.tile[TileIndex(1 - k[1], k[2])])

\* f[k] averaged over the pixels (x, y), 1 <= x <= w - 2, 1 <= y <= h - 2, of
\* the buffer: the sum of f over them, over their number or 1 if there are
\* none (the columns of a row first, then the rows)
InnerMean(buf, f) ==
    LET nx == [p \in Parities |-> ParityCount(1, buf.w - 2, p)]
        ny == [p \in Parities |-> ParityCount(1, buf.h - 2, p)]
        cols == Max(1, nx[0] + nx[1])
        rows == Max(1, ny[0] + ny[1])
        row == [p \in Parities |->
                  SignedShare(f[<<0, p>>], nx[0], cols)
                  + SignedShare(f[<<1, p>>], nx[1], cols)]
    IN SignedShare(row[0], ny[0], rows) + SignedShare(row[1], ny[1], rows)

\* laplacianVariance(gray, w, h), in units of 1/100
laplacianVariance(buf) ==
    LET lap == [k \in Classes |-> Laplacian(buf, k)]
        \* lap * lap, in units of 1/100
        lapSq == [k \in Classes |-> SquareOver100(RoundDiv(Abs(lap[k]), 100))]
        \* sum / count, in units of 1/10000
        mean == InnerMean(buf, lap)
    IN InnerMean(buf, lapSq) - SquareOver100(RoundDiv(Abs(mean), 100))

\* the counters and the detail after the pixel loop (lines 1455-1513)
PixelStats(buf) ==
    [total |-> buf.w * buf.h,
     leafLike |-> CountAll(buf, isLeafLike),
     green |-> CountAll(buf, isGreen),
     yellow |-> CountAll(buf, isYellow),
     brown |-> CountAll(buf, isBrown),
     darkSpot |-> CountAll(buf, isDarkSpot),
     satLowCount |-> CountAll(buf, isSatLow),
     edgeBrown |-> CountEdge(buf, isBrown),
     edgeTotal |-> SumClasses([k \in Classes |-> EdgeOf(buf, k)]),
     detail |-> laplacianVariance(buf)]

\* the defaults of the options; minLeafCoverage in hundredths and maxAspect
\* in tenths, the other options in their own unit
DefaultOpts ==
    [minWidth |-> 480, minHeight |-> 480, maxFileMB |-> 8,
     minLeafCoverage |-> 18, minDetail |-> 35, maxAspect |-> 23]

\* const { minWidth = 480, ... } = opts
Config(o) ==
    [k \in DOMAIN DefaultOpts |->
        IF Get(o, k) = Undef THEN DefaultOpts[k] ELSE Get(o, k).v]

Reason(text, args) == [text |-> text, args |-> args]
REASON_MIME == Reason("Please upload a real photo (JPG/PNG/WebP).", <<>>)
REASON_SIZE(maxFileMB) == Reason("Image too large (max {0}MB).", <<maxFileMB>>)
REASON_DIMS(minWidth, minHeight) ==
    Reason("Image too small. Use at least {0}x{1}.", <<minWidth, minHeight>>)
REASON_ASPECT == Reason("Weird aspect ratio. Avoid screenshots/collages.", <<>>)
REASON_LEAF ==
    Reason("Leaf not clearly visible. Move closer and fill the frame with the leaf.",
           <<>>)
REASON_BLURRY ==
    Reason("Photo looks too blurry. Hold steady and use better lighting.", <<>>)
REASON_GRAPHIC ==
    Reason("Photo looks like a screenshot/graphic. Upload a real leaf photo.", <<>>)
REASON_UNREADABLE == Reason("Could not read image. Try another photo.", <<>>)

\* the reason when the check fails, nothing otherwise
ReasonIf(failed, reason) == IF failed THEN <<reason>> ELSE <<>>

MEGABYTE == 1024 * 1024

\* lines 1440-1441: the checks on the file, before it is decoded
MimeFails(f) == ~StartsWithImage(f.type)
SizeFails(f, c) == f.size > c.maxFileMB * MEGABYTE
FileReasons(f, c) ==
    ReasonIf(MimeFails(f), REASON_MIME)
    \o ReasonIf(SizeFails(f, c), REASON_SIZE(c.maxFileMB))

\* lines 1450-1452: the checks on the decoded picture
DimsFail(img, c) == img.width < c.minWidth \/ img.height < c.minHeight
AspectFails(img, c) ==
    \/ 10 * img.width > c.maxAspect * img.height
    \/ c.maxAspect * img.width < 10 * img.height
\* mutant: the aspect reason comes before the dimensions reason
ImageReasonsAspectFirst(img, c) ==
    ReasonIf(AspectFails(img, c), REASON_ASPECT)
    \o ReasonIf(DimsFail(img, c), REASON_DIMS(c.minWidth, c.minHeight))

ImageReasons(img, c) ==
    ReasonIf(DimsFail(img, c), REASON_DIMS(c.minWidth, c.minHeight))
    \o ReasonIf(AspectFails(img, c), REASON_ASPECT)

\* lines 1505-1517: the checks on the pixels
LeafFails(st, c) == 100 * st.leafLike < c.minLeafCoverage * Max(1, st.total)
BlurryFails(st, c) == st.detail < 100 * c.minDetail
\* mutant: flat, low-saturation pictures are let through
GraphicFailsNever(st) == FALSE

GraphicFails(st) == 100 * st.satLowCount > 65 * Max(1, st.total)
QualityReasons(st, c) ==
    ReasonIf(LeafFails(st, c), REASON_LEAF)
    \o ReasonIf(BlurryFails(st, c), REASON_BLURRY)
    \o ReasonIf(GraphicFails(st), REASON_GRAPHIC)

\* floor(SCALE * n / (10 * d)) for d > 0: a weighted count, whose weights
\* are tenths in n, over its total
TenthsOver(n, d) == IF n >= 0 THEN Over(n, d) ELSE -Over(-n, d)

\* clamp(n, 0, 1) of leafVision.js, in units of 1/SCALE
clampUnit(n) == Min(SCALE, Max(0, n))

LOW_DETAIL_PENALTY == 80000

\* detail < minDetail * 1.6
LowDetail(st, c) == st.detail < 160 * c.minDetail

\* lines 1521-1528: the weighted ratios, clamped, in units of 1/SCALE
RawStress(st) ==
    clampUnit(TenthsOver(18 * st.yellow + 22 * st.brown + 16 * st.darkSpot
                         - 8 * st.green, Max(1, st.total))
              + TenthsOver(18 * st.edgeBrown, Max(1, st.edgeTotal)))

\* mutant: the low-detail penalty is never added
Stress01NoPenalty(st, c) == RawStress(st)

\* lines 1521-1529: stress01, in units of 1/SCALE
Stress01(st, c) ==
    IF LowDetail(st, c) THEN clampUnit(RawStress(st) + LOW_DETAIL_PENALTY)
    ELSE RawStress(st)

\* Math.round(stress01 * 100)
ImageStress(st, c) == RoundDiv(100 * Stress01(st, c), SCALE)

TAG_YELLOW == "Yellowing (chlorosis)"
TAG_BROWN == "Browning / necrosis"
TAG_EDGE == "Edge burn"
TAG_SPOTS == "Spots / lesions"
TAG_HEALTHY == "Mostly healthy green"

TagIf(cond, tag) == IF cond THEN <<tag>> ELSE <<>>

\* lines 1534-1537: the stress tags
StressTags(st) ==
    TagIf(100 * st.yellow > 8 * Max(1, st.total), TAG_YELLOW)
    \o TagIf(100 * st.brown > 5 * Max(1, st.total), TAG_BROWN)
    \o TagIf(100 * st.edgeBrown > 8 * Max(1, st.edgeTotal), TAG_EDGE)
    \o TagIf(100 * st.darkSpot > 3 * Max(1, st.total), TAG_SPOTS)

\* mutant: the healthy tag does not look at the stress tags
SymptomsHealthyAlways(st) ==
    StressTags(st) \o TagIf(100 * st.green > 20 * Max(1, st.total), TAG_HEALTHY)

\* lines 1533-1538
Symptoms(st) ==
    StressTags(st)
    \o TagIf(100 * st.green > 20 * Max(1, st.total) /\ Len(StressTags(st)) = 0,
             TAG_HEALTHY)

\* n / d to three decimals, in thousandths
Thousandths(n, d) == RoundDiv(1000 * n, d)

\* lines 1543-1555; aspect is the fraction width / height, fileMB is in
\* hundredths, the ratios in thousandths and detail in tenths
Metrics(f, buf, st) ==
    [w |-> buf.w, h |-> buf.h,
     aspect |-> [n |-> f.image.width, d |-> f.image.height],
     fileMB |-> RoundDiv(100 * f.size, MEGABYTE),
     leafCoverage |-> Thousandths(st.leafLike, Max(1, st.total)),
     greenRatio |-> Thousandths(st.green, Max(1, st.total)),
     yellowRatio |-> Thousandths(st.yellow, Max(1, st.total)),
     brownRatio |-> Thousandths(st.brown, Max(1, st.total)),
     darkSpotRatio |-> Thousandths(st.darkSpot, Max(1, st.total)),
     edgeBurnRatio |-> Thousandths(st.edgeBrown, Max(1, st.edgeTotal)),
     satLowRatio |-> Thousandths(st.satLowCount, Max(1, st.total)),
     detail |-> RoundDiv(st.detail, 10)]

\* the picture of a file that cannot be decoded
Undecodable == [t |-> "undecodable"]
Decodable(f) == f.image # Undecodable

DECODE_FAILURE_STRESS == 50

\* mutant: a decode failure scores 0
DecodeFailureZeroStress ==
    [ok |-> FALSE, reasons |-> <<REASON_UNREADABLE>>, metrics |-> <<>>,
     imageStress |-> 0, symptoms |-> <<>>]

\* line 1447: the result when loadImageFromFile rejects
DecodeFailure ==
    [ok |-> FALSE, reasons |-> <<REASON_UNREADABLE>>, metrics |-> <<>>,
     imageStress |-> DECODE_FAILURE_STRESS, symptoms |-> <<>>]


\* lines 1515-1558: the result for the reasons so far and the pixel counters
Verdict(f, c, reasons, buf, st) ==
    [ok |-> Len(reasons \o QualityReasons(st, c)) = 0,
     reasons |-> reasons \o QualityReasons(st, c),
     metrics |-> Metrics(f, buf, st),
     imageStress |-> ImageStress(st, c),
     symptoms |-> Symptoms(st)]

\* what analyzeLeafPhoto(file, opts) resolves with, when the canvas gives a
\* 2d context
analyzeLeafPhoto(f, o) ==
    LET c == Config(o)
        buf == getImageData(f.image)
    IN IF ~Decodable(f) THEN DecodeFailure
       ELSE Verdict(f, c, FileReasons(f, c) \o ImageReasons(f.image, c),
                    buf, PixelStats(buf))

(***************************************************************************)
(* Photos, options and the machine: one call of analyzeLeafPhoto           *)
(***************************************************************************)
Rgb(r, g, b) == [r |-> r, g |-> g, b |-> b]
LeafGreen == Rgb(60, 160, 60)
LeafGreenLight == Rgb(80, 190, 70)
LeafGreenNear == Rgb(60, 162, 60)
YellowGreen == Rgb(180, 200, 40)
Yellow == Rgb(220, 200, 40)
Brown == Rgb(150, 90, 40)
DarkLeaf == Rgb(20, 50, 20)
Grey == Rgb(128, 128, 128)
White == Rgb(250, 250, 250)

Uniform(c) == <<c, c, c, c>>
Checker(a, b) == <<a, b, b, a>>
Columns(a, b) == <<a, b, a, b>>
\* one pixel in four is of colour b
Dotted(a, b) == <<a, a, a, b>>

Tiles ==
    { Uniform(LeafGreen), Uniform(Grey), Uniform(Brown), Uniform(Yellow),
      Checker(LeafGreen, LeafGreenLight), Checker(LeafGreen, LeafGreenNear),
      Columns(LeafGreen, White), Columns(YellowGreen, LeafGreenLight),
      Dotted(LeafGreen, DarkLeaf), Dotted(LeafGreenLight, Brown),
      Dotted(White, LeafGreen), Checker(Brown, DarkLeaf),
      <<LeafGreen, LeafGreenLight, Grey, White>>,
      <<LeafGreen, Yellow, LeafGreenLight, LeafGreen>> }

Picture(w, h, tile) == [width |-> w, height |-> h, tile |-> tile]

\* width and height of the pictures
Sizes ==
    { <<1, 1>>, <<2, 5>>, <<3, 3>>, <<7, 4>>, <<25, 40>>, <<300, 300>>,
      <<360, 200>>, <<480, 480>>, <<640, 480>>, <<481, 1200>>, <<1200, 400>>,
      <<4000, 3000>> }

Pictures ==
    {Undecodable} \cup {Picture(s[1], s[2], t) : s \in Sizes, t \in Tiles}

PhotoFile(type, size, image) == [type |-> type, size |-> size, image |-> image]

\* file types and sizes in bytes
FileTypes == {Mime("image", "jpeg"), Mime("text", "plain")}
FileSizes == {200 * 1024, 8 * MEGABYTE, 8 * MEGABYTE + 1}

OptionSets ==
    { EmptyObj,
      MkObj([minWidth |-> Num(1), minHeight |-> Num(1), maxFileMB |-> Num(10),
             minLeafCoverage |-> Num(0), minDetail |-> Num(0),
             maxAspect |-> Num(1000)]),
      MkObj([minWidth |-> Num(1000), minHeight |-> Absent, maxFileMB |-> Num(1),
             minLeafCoverage |-> Num(90), minDetail |-> Num(200),
             maxAspect |-> Num(10)]),
      MkObj([minWidth |-> Num(3), minHeight |-> Num(3), maxFileMB |-> Absent,
             minLeafCoverage |-> Absent, minDetail |-> Num(5),
             maxAspect |-> Absent]) }

NoBuffer == [t |-> "none"]
NoStats == [t |-> "none"]
\* the call has thrown (a rejected promise)
Thrown == [t |-> "throw"]

StartAnalysis(files, options) ==
    /\ file \in files
    /\ opts \in options
    /\ an \in {[pc |-> "start", context2d |-> ctx, reasons |-> <<>>,
                buf |-> NoBuffer, stats |-> NoStats] : ctx \in BOOLEAN}
    /\ analysis = Pending
    /\ EngineIdle /\ ServerIdle /\ WizardIdle /\ AuthIdle /\ BrowserIdle

InitAnalyzer ==
    StartAnalysis({PhotoFile(t, s, i) : t \in FileTypes, s \in FileSizes,
                                        i \in Pictures},
                  OptionSets)

\* lines 1428-1441: the options and the checks on the file
CheckFile ==
    /\ an.pc = "start"
    /\ an' = [an EXCEPT !.pc = "loading",
                        !.reasons = FileReasons(file, Config(opts))]
    /\ UNCHANGED <<file, opts, analysis>>
    /\ UNCHANGED <<engineVars, serverVars, wizardVars,
                 authVars, browserVars>>

\* lines 1443-1452: the image loads or fails to; the checks on the picture
LoadImage ==
    /\ an.pc = "loading"
    /\ IF Decodable(file)
       THEN /\ an' = [an EXCEPT !.pc = "decoded",
                        !.reasons = @ \o ImageReasons(file.image, Config(opts))]
            /\ UNCHANGED analysis
       ELSE /\ an' = [an EXCEPT !.pc = "done"]
            /\ analysis' = DecodeFailure
    /\ UNCHANGED <<file, opts>>
    /\ UNCHANGED <<engineVars, serverVars, wizardVars,
                 authVars, browserVars>>

\* lines 1454-1513: the canvas and the pixel loop; drawing throws a TypeError
\* when the canvas gives no 2d context
ScanPixels ==
    /\ an.pc = "decoded"
    /\ IF an.context2d
       THEN /\ an' = [an EXCEPT !.pc = "scanned",
                        !.buf = getImageData(file.image),
                        !.stats = PixelStats(getImageData(file.image))]
            /\ UNCHANGED analysis
       ELSE /\ an' = [an EXCEPT !.pc = "thrown"]
            /\ analysis' = Thrown
    /\ UNCHANGED <<file, opts>>
    /\ UNCHANGED <<engineVars, serverVars, wizardVars,
                 authVars, browserVars>>

\* lines 1515-1558: the quality gate, the stress score, the tags, the result
Conclude ==
    /\ an.pc = "scanned"
    /\ analysis' = Verdict(file, Config(opts), an.reasons, an.buf, an.stats)
    /\ an' = [an EXCEPT !.pc = "done"]
    /\ UNCHANGED <<file, opts>>
    /\ UNCHANGED <<engineVars, serverVars, wizardVars,
                 authVars, browserVars>>

NextAnalyzer == CheckFile \/ LoadImage \/ ScanPixels \/ Conclude

SpecAnalyzer == InitAnalyzer /\ [][NextAnalyzer]_vars

\* the downsample alone: pictures of many sizes, a valid file, the defaults
MaxDimSteps == 8
DimVals == {1, 2, 359, 360, 361} \cup {120 * k : k \in 1..MaxDimSteps}

InitDownsample ==
    StartAnalysis({PhotoFile(Mime("image", "jpeg"), 200 * 1024,
                             Picture(w, h, Checker(LeafGreen, LeafGreenLight))) :
                      w \in DimVals, h \in DimVals},
                  {EmptyObj})

SpecDownsample == InitDownsample /\ [][NextAnalyzer]_vars

(***************************************************************************)
(* Properties of the Leaf Photo Analyzer                                   *)
(***************************************************************************)
\* the call has returned a result (it has not thrown)
Returned == an.pc = "done" /\ analysis # Pending /\ analysis # Thrown

\* C13: decode failure is fail-safe.  Whenever the image cannot be decoded,
\* analyzeLeafPhoto does not raise; it resolves with ok = false, the generic
\* could-not-read reason in reasons, imageStress = 50 and no symptoms,
\* whatever checks on the file had already failed.
C13_DecodeFailureFailSafe ==
    ~Decodable(file)
    => /\ analysis # Thrown
       /\ an.pc \in {"start", "loading", "done"}
       /\ an.pc = "done"
          => /\ analysis # Pending
             /\ analysis.ok = FALSE
             /\ \E i \in 1..Len(analysis.reasons) :
                   analysis.reasons[i] = REASON_UNREADABLE
             /\ analysis.imageStress = 50
             /\ analysis.symptoms = <<>>

\* an undecodable file of the wrong type and over the size limit has been
\* answered, with no 2d context available
C13_Witness ==
    /\ ~Decodable(file)
    /\ an.pc = "done"
    /\ Len(an.reasons) = 2
    /\ ~an.context2d
    /\ analysis.imageStress = 50

\* C14: the quality gate.  For every decodable image and every config the
\* result has ok = true if and only if leafCoverage >= minLeafCoverage,
\* detail >= minDetail, the low-saturation ratio is <= 0.65 and the four
\* metadata checks passed (image mime type, size <= maxFileMB, width >=
\* minWidth and height >= minHeight, 1/maxAspect <= aspect <= maxAspect);
\* and ok is true if and only if reasons is empty.
C14_QualityGate ==
    (Returned /\ Decodable(file))
    => LET c == Config(opts)
           st == an.stats
           img == file.image
       IN /\ analysis.ok <=>
               /\ 100 * st.leafLike >= c.minLeafCoverage * st.total
               /\ st.detail >= 100 * c.minDetail
               /\ 100 * st.satLowCount <= 65 * st.total
               /\ file.type.major = "image"
               /\ file.size <= c.maxFileMB * 1024 * 1024
               /\ img.width >= c.minWidth /\ img.height >= c.minHeight
               /\ 10 * img.height <= c.maxAspect * img.width
               /\ 10 * img.width <= c.maxAspect * img.height
          /\ analysis.ok <=> analysis.reasons = <<>>

\* a photo accepted under the default options, and one accepted only because
\* the options were relaxed
C14_Witness ==
    /\ Returned /\ Decodable(file)
    /\ analysis.ok
    /\ opts = EmptyObj
    /\ file.image.width = 640

\* the same file with an image mime type, and the same options with the
\* metadata thresholds relaxed until every metadata check passes; the pixels
\* and the thresholds on the pixels are untouched
WithImageType(f) == [f EXCEPT !.type = Mime("image", "jpeg")]
RelaxedMetadata(o) ==
    MkObj([k \in DOMAIN DefaultOpts |->
        CASE k = "minWidth" -> Num(1)
          [] k = "minHeight" -> Num(1)
          [] k = "maxFileMB" -> Num(16)
          [] k = "maxAspect" -> Num(100000)
          [] OTHER -> Num(Config(o)[k])])

\* the reasons of the failed metadata checks, in the order mime, size,
\* dimensions, aspect
MetadataReasons(f, c) ==
    LET pick(failed, reason) == IF failed THEN <<reason>> ELSE <<>>
    IN pick(f.type.major # "image", REASON_MIME)
       \o pick(f.size > c.maxFileMB * 1024 * 1024, REASON_SIZE(c.maxFileMB))
       \o pick(f.image.width < c.minWidth \/ f.image.height < c.minHeight,
               REASON_DIMS(c.minWidth, c.minHeight))
       \o pick(\/ 10 * f.image.width > c.maxAspect * f.image.height
               \/ 10 * f.image.height > c.maxAspect * f.image.width,
               REASON_ASPECT)

\* C15: metadata validation only annotates.  For every decodable image a
\* failed metadata check (mime type, file size, dimensions, aspect ratio)
\* appends exactly one reason per failed check, in the order mime, size,
\* dimensions, aspect, and leaves metrics, imageStress and symptoms exactly
\* what they are for the same pixels with passing metadata.
C15_MetadataOnlyAnnotates ==
    (Returned /\ Decodable(file))
    => LET passing == analyzeLeafPhoto(WithImageType(file), RelaxedMetadata(opts))
           meta == MetadataReasons(file, Config(opts))
       IN /\ MetadataReasons(WithImageType(file),
                             Config(RelaxedMetadata(opts))) = <<>>
          /\ analysis.reasons = meta \o passing.reasons
          /\ analysis.metrics = passing.metrics
          /\ analysis.imageStress = passing.imageStress
          /\ analysis.symptoms = passing.symptoms

\* all four metadata checks failed on a decodable picture that shows symptoms
C15_Witness ==
    /\ Returned /\ Decodable(file)
    /\ Len(MetadataReasons(file, Config(opts))) = 4
    /\ analysis.symptoms # <<>>
    /\ analysis.imageStress > 8

\* C16: the downsample caps the work.  For every source image of width
\* W >= 1 and height H >= 1 the scanned buffer has 1 <= w <= W and
\* 1 <= h <= H (never upscaled) and max(w, h) <= 360, so at most 129600
\* pixels are classified; when max(W, H) > 360 the longer side is exactly 360.
C16_DownsampleCap ==
    (Decodable(file) /\ an.buf # NoBuffer)
    => LET W == file.image.width
           H == file.image.height
           w == an.buf.w
           h == an.buf.h
       IN /\ 1 <= w /\ w <= W
          /\ 1 <= h /\ h <= H
          /\ w <= 360 /\ h <= 360
          /\ an.stats.total = w * h
          /\ an.stats.total <= 129600
          /\ (W > 360 \/ H > 360) => (IF W >= H THEN w ELSE h) = 360

\* a wide strip, one pixel high, has been brought down to 360 x 1 and scanned
C16_Witness ==
    /\ an.pc = "done" /\ an.buf # NoBuffer
    /\ file.image.width > 360 /\ file.image.height = 1
    /\ an.buf.w = 360 /\ an.buf.h = 1
    /\ an.stats.total = 360

\* a picture larger than the cap on both sides has been scanned
C16_LargePictureScanned ==
    /\ an.pc = "done" /\ an.buf # NoBuffer
    /\ file.image.width > file.image.height /\ file.image.height > 360
    /\ an.buf.w = 360 /\ an.buf.h < 360

\* C17: the stress score.  For every decodable image imageStress is an
\* integer in 0..100 equal to round(100 * s), where raw = clamp(1.8*yellow +
\* 2.2*brown + 1.6*darkSpot + 1.8*edgeBurn - 0.8*green, 0, 1) over the ratios
\* and s = clamp(raw + 0.08, 0, 1) if detail < 1.6 * minDetail, else s = raw;
\* an image with all colour ratios 0 and low detail scores exactly 8.
C17_StressScore ==
    (Returned /\ Decodable(file))
    => LET st == an.stats
           total == Max(1, st.total)
           edgeTotal == Max(1, st.edgeTotal)
           lowDetail == st.detail < 160 * Config(opts).minDetail
           sum == TenthsOver(18 * st.yellow + 22 * st.brown + 16 * st.darkSpot
                             - 8 * st.green, total)
                  + TenthsOver(18 * st.edgeBrown, edgeTotal)
           raw == IF sum < 0 THEN 0 ELSE IF sum > SCALE THEN SCALE ELSE sum
           s == IF lowDetail
                THEN (IF raw + 80000 > SCALE THEN SCALE ELSE raw + 80000)
                ELSE raw
       IN /\ analysis.imageStress \in 0..100
          /\ analysis.imageStress = RoundDiv(100 * s, SCALE)
          /\ (/\ st.yellow = 0 /\ st.brown = 0 /\ st.darkSpot = 0
              /\ st.edgeBrown = 0 /\ st.green = 0 /\ lowDetail)
             => analysis.imageStress = 8

\* a flat picture without any of the colours scored 8, the penalty alone
C17_Witness ==
    /\ Returned /\ Decodable(file)
    /\ an.stats.yellow = 0 /\ an.stats.brown = 0 /\ an.stats.darkSpot = 0
    /\ an.stats.edgeBrown = 0 /\ an.stats.green = 0
    /\ an.stats.detail < 160 * Config(opts).minDetail
    /\ analysis.imageStress = 8

\* the penalty has been added to a positive score, and a detailed picture has
\* been scored without it
C17_PenaltyOnTop ==
    /\ Returned /\ Decodable(file)
    /\ an.stats.detail < 160 * Config(opts).minDetail
    /\ analysis.imageStress > 8 /\ analysis.imageStress < 100
C17_NoPenalty ==
    /\ Returned /\ Decodable(file)
    /\ an.stats.detail >= 160 * Config(opts).minDetail
    /\ analysis.imageStress > 0 /\ analysis.imageStress < 100

AllTags == <<TAG_YELLOW, TAG_BROWN, TAG_EDGE, TAG_SPOTS, TAG_HEALTHY>>
Emitted(tag) ==
    \E i \in 1..Len(analysis.symptoms) : analysis.symptoms[i] = tag

\* C18: the symptom tags.  Yellowing is emitted iff yellowRatio > 0.08,
\* browning/necrosis iff brownRatio > 0.05, edge burn iff edgeBurnRatio > 0.08,
\* spots/lesions iff darkSpotRatio > 0.03, each independently and in that
\* order; 'Mostly healthy green' is emitted iff none of the four fired and
\* greenRatio > 0.20, so it never accompanies a stress tag.
C18_SymptomTags ==
    (Returned /\ Decodable(file))
    => LET st == an.stats
           total == Max(1, st.total)
           edgeTotal == Max(1, st.edgeTotal)
           stressed == \/ Emitted(TAG_YELLOW) \/ Emitted(TAG_BROWN)
                       \/ Emitted(TAG_EDGE) \/ Emitted(TAG_SPOTS)
       IN /\ Emitted(TAG_YELLOW) <=> 100 * st.yellow > 8 * total
          /\ Emitted(TAG_BROWN) <=> 100 * st.brown > 5 * total
          /\ Emitted(TAG_EDGE) <=> 100 * st.edgeBrown > 8 * edgeTotal
          /\ Emitted(TAG_SPOTS) <=> 100 * st.darkSpot > 3 * total
          /\ Emitted(TAG_HEALTHY) <=> (~stressed /\ 100 * st.green > 20 * total)
          /\ ~(Emitted(TAG_HEALTHY) /\ stressed)
          /\ analysis.symptoms = SelectSeq(AllTags, Emitted)

\* a green picture with a stress tag: the healthy tag was held back
C18_Witness ==
    /\ Returned /\ Decodable(file)
    /\ 100 * an.stats.green > 20 * an.stats.total
    /\ Len(analysis.symptoms) >= 2
    /\ ~Emitted(TAG_HEALTHY)

\* a picture tagged healthy
C18_HealthyTagged ==
    /\ Returned /\ Decodable(file)
    /\ analysis.symptoms = <<TAG_HEALTHY>>

(***************************************************************************)
(* The scan wizard (Scan.jsx): picking a photo.                            *)
(*                                                                         *)
(* ui holds the component's state; inflight holds the calls of             *)
(* onPickImage that are waiting for analyzeLeafPhoto, each with its file,  *)
(* whether the browser gives the canvas a 2d context, and the promise.     *)
(***************************************************************************)
\* mutant: strict blocking switched on
ENABLE_IMAGE_BLOCKER_ON == TRUE

ENABLE_IMAGE_BLOCKER == FALSE

ERROR_NOT_IMAGE == "Please upload an image file (JPG/PNG/WebP)."
ERROR_TOO_LARGE == "Image too large. Please keep it under 8 MB."
ERROR_NOT_ACCEPTABLE == "Photo not acceptable. Please upload a clear real leaf photo."
WARN_LOW_QUALITY ==
    "Photo quality looks low (best-effort check). We will still allow scanning, but results may be less accurate."
WARN_NOT_ANALYZED ==
    "Couldn't analyze leaf stress from this photo. You can still continue."

NEUTRAL_STRESS == 25

\* the useState initial values
InitialUi ==
    [step |-> 1, imageFile |-> Null, imageStress |-> NEUTRAL_STRESS,
     symptoms |-> <<>>, photoWarn |-> "", photoMetrics |-> Null,
     error |-> "", result |-> Null]

\* e.target.files?.[0] when the dialog was cancelled
NoPick == Undef

\* the picker's own checks
PickerRejects(f) == ~StartsWithImage(f.type) \/ f.size > 8 * MEGABYTE
PickerError(f) ==
    IF ~StartsWithImage(f.type) THEN ERROR_NOT_IMAGE ELSE ERROR_TOO_LARGE

\* lines 288-292: what every call does first
ClearedForPick(u) ==
    [u EXCEPT !.error = "", !.result = Null, !.photoWarn = "",
              !.photoMetrics = Null, !.symptoms = <<>>]

\* what the promise of analyzeLeafPhoto(file) settles with: the call raises
\* when the picture was decoded and the canvas has no 2d context
Settlement(f, ctx) ==
    IF Decodable(f) /\ ~ctx THEN Thrown ELSE analyzeLeafPhoto(f, EmptyObj)

\* line 310: the call made, its promise not yet settled
Call(f, ctx) ==
    [file |-> f, context2d |-> ctx, promise |-> Settlement(f, ctx)]

AnalysisThrows(call) == call.promise = Thrown
AnalysisOf(call) == call.promise

\* lines 311-331: the analysis resolved
AfterAnalysis(u, a) ==
    LET shown == [u EXCEPT !.imageStress = a.imageStress,
                           !.symptoms = a.symptoms,
                           !.photoMetrics = a.metrics,
                           !.photoWarn = IF ~a.ok THEN WARN_LOW_QUALITY ELSE ""]
    IN IF ENABLE_IMAGE_BLOCKER /\ ~a.ok
       THEN [shown EXCEPT !.error = ERROR_NOT_ACCEPTABLE, !.step = 1]
       ELSE [shown EXCEPT !.step = 2]

\* lines 332-338: the analysis raised
AfterThrow(u) ==
    [u EXCEPT !.photoWarn = WARN_NOT_ANALYZED, !.imageStress = NEUTRAL_STRESS,
              !.symptoms = <<>>, !.step = 2]

WizardFiles ==
    { PhotoFile(Mime("image", "jpeg"), 200 * 1024,
                Picture(640, 480, Checker(LeafGreen, LeafGreenLight))),
      PhotoFile(Mime("image", "jpeg"), 200 * 1024,
                Picture(300, 300, Uniform(Brown))),
      PhotoFile(Mime("image", "jpeg"), 8 * MEGABYTE,
                Picture(640, 480, Uniform(Grey))),
      PhotoFile(Mime("image", "jpeg"), 200 * 1024,
                Picture(1200, 400, Dotted(LeafGreen, Yellow))),
      PhotoFile(Mime("image", "jpeg"), 200 * 1024,
                Picture(480, 480, Columns(LeafGreen, DarkLeaf))),
      PhotoFile(Mime("image", "jpeg"), 200 * 1024,
                Picture(4000, 3000, Checker(YellowGreen, Yellow))),
      PhotoFile(Mime("image", "jpeg"), 200 * 1024, Undecodable),
      PhotoFile(Mime("text", "plain"), 200 * 1024, Undecodable),
      PhotoFile(Mime("image", "jpeg"), 8 * MEGABYTE + 1,
                Picture(640, 480, Checker(LeafGreen, LeafGreenLight))) }

InitWizard ==
    /\ ui = InitialUi
    /\ inflight = {}
    /\ EngineIdle /\ ServerIdle /\ AnalyzerIdle /\ AuthIdle /\ BrowserIdle

\* onPickImage(file) up to its await
PickOf(files, contexts) ==
    /\ \E f \in files, ctx \in contexts :
          IF f = NoPick
          THEN ui' = ClearedForPick(ui) /\ UNCHANGED inflight
          ELSE IF PickerRejects(f)
          THEN /\ ui' = [ClearedForPick(ui) EXCEPT !.error = PickerError(f)]
               /\ UNCHANGED inflight
          ELSE /\ ui' = [ClearedForPick(ui) EXCEPT !.imageFile = f]
               /\ inflight' = inflight \cup {Call(f, ctx)}
    /\ UNCHANGED <<engineVars, serverVars, analyzerVars,
                 authVars, browserVars>>

\* the file input of step 1, for a user who picks when no analysis is pending
PickImage ==
    /\ ui.step = 1
    /\ inflight = {}
    /\ PickOf(WizardFiles \cup {NoPick}, BOOLEAN)

\* the awaited analysis resolved: the rest of the try block
AnalysisResolved ==
    /\ \E call \in inflight :
          /\ ~AnalysisThrows(call)
          /\ ui' = AfterAnalysis(ui, AnalysisOf(call))
          /\ inflight' = inflight \ {call}
    /\ UNCHANGED <<engineVars, serverVars, analyzerVars,
                 authVars, browserVars>>

\* the awaited analysis raised: the catch block
AnalysisThrew ==
    /\ \E call \in inflight :
          /\ AnalysisThrows(call)
          /\ ui' = AfterThrow(ui)
          /\ inflight' = inflight \ {call}
    /\ UNCHANGED <<engineVars, serverVars, analyzerVars,
                 authVars, browserVars>>

\* line 529: the Change photo button of step 2
ChangePhoto ==
    /\ ui.step = 2
    /\ ui' = [ui EXCEPT !.step = 1]
    /\ UNCHANGED inflight
    /\ UNCHANGED <<engineVars, serverVars, analyzerVars,
                 authVars, browserVars>>

NextWizard == PickImage \/ AnalysisResolved \/ AnalysisThrew \/ ChangePhoto

\* the image's onload or onerror fires, and the promise's continuation runs
SpecWizard ==
    /\ InitWizard /\ [][NextWizard]_vars
    /\ WF_vars(AnalysisResolved) /\ WF_vars(AnalysisThrew)

(***************************************************************************)
(* Properties of the scan wizard                                           *)
(***************************************************************************)
\* a call of onPickImage is waiting for its analysis
AnalysisPending == inflight # {}

\* the step of a call that ends it: it moved the wizard to step 2 with no
\* error, and a photo the analyzer rejected changed the warning text only
ContinuesToStep2(call) ==
    /\ ui'.step = 2
    /\ ui'.error = ""
    /\ ui'.imageFile = call.file
    /\ (~AnalysisThrows(call) /\ ~AnalysisOf(call).ok)
       => /\ ui'.photoWarn = WARN_LOW_QUALITY
          /\ ui'.error = ui.error
          /\ ui'.imageStress = AnalysisOf(call).imageStress
          /\ ui'.symptoms = AnalysisOf(call).symptoms

C19_AcceptedContinues ==
    /\ ~AnalysisPending /\ ui.step = 2 /\ ui.error = ""
    /\ ui.imageFile # Null /\ ui.photoWarn = "" /\ ui.photoMetrics # Null
C19_DecodeFailureContinues ==
    /\ ~AnalysisPending /\ ui.step = 2 /\ ui.error = ""
    /\ ui.photoWarn = WARN_LOW_QUALITY
    /\ ui.imageStress = 50 /\ ui.photoMetrics = <<>>
C19_ThrowContinues ==
    /\ ~AnalysisPending /\ ui.step = 2 /\ ui.error = ""
    /\ ui.photoWarn = WARN_NOT_ANALYZED /\ ui.imageStress = 25

\* the picker itself turned a file away: the wizard stays at step 1
C19_PickerRejected ==
    ui.step = 1 /\ ui.error = ERROR_TOO_LARGE /\ ~AnalysisPending

(***************************************************************************)
(* The AI contribution against its reference formula                       *)
(***************************************************************************)
\* what the payload carries for the AI contribution
GivenStress == Get(Get(payload, "ai"), "stressScore")
GivenConfidence == Get(Get(payload, "ai"), "confidence")
GivenDays == Get(Get(payload, "inputs"), "daysSinceSpray")

\* the reference formula in units of 1/FUSE, for a stress score and a
\* confidence in 0..100: stress, conf, timeFactor and the softening factor
\* are taken in hundredths, so that
\* soft(stress) * conf * timeFactor * 0.25 = 2 * product / FUSE
ReferenceContribution(stressScore, confidence, days) ==
    LET conf == IF confidence < 30 THEN 30 ELSE confidence
        timeFactor == IF days < 7 THEN 100 ELSE IF days < 14 THEN 65 ELSE 40
        softened == IF stressScore < 40 THEN 70 * stressScore
                    ELSE IF stressScore < 70 THEN 85 * stressScore
                    ELSE 100 * stressScore
        contribution == 2 * softened * conf * timeFactor
    IN IF contribution < FUSE \div 4 THEN contribution ELSE FUSE \div 4

\* C20: computeAiContribution equals the reference formula for every
\* stressScore in 0..100, confidence in 0..100 and days >= 0: contribution =
\* min(soft(stress) * conf * timeFactor * 0.25, 0.25) with conf floored at
\* 0.3, timeFactor 1.0 / 0.65 / 0.4 for days < 7 / 7 <= days < 14 / days >= 14
\* and soft(stress) = 0.7, 0.85 or 1 times stress for stress < 0.4 /
\* 0.4 <= stress < 0.7 / otherwise; a missing daysSinceSpray counts as 0.
C20_AiReferenceFormula ==
    (/\ pc = "done"
     /\ GivenStress.t = "num" /\ GivenStress.v \in 0..100
     /\ GivenConfidence.t = "num" /\ GivenConfidence.v \in 0..100
     /\ GivenDays.t = "num" => GivenDays.v >= 0
     /\ GivenDays.t \in {"num", "undefined"})
    => ret.breakdown.aiContribution =
          ReferenceContribution(GivenStress.v, GivenConfidence.v,
                                IF GivenDays = Undef THEN 0 ELSE GivenDays.v)

\* mid-range stress at a confidence under the floor, on day 7
C20_Witness ==
    /\ pc = "done"
    /\ GivenStress = Num(50) /\ GivenConfidence = Num(10) /\ GivenDays = Num(7)
    /\ ret.breakdown.aiContribution = 16575000

\* the days are missing; the ceiling is reached
C20_MissingDays ==
    /\ pc = "done"
    /\ GivenStress = Num(100) /\ GivenConfidence = Num(100) /\ GivenDays = Undef
    /\ ret.breakdown.aiContribution = FUSE \div 4

(***************************************************************************)
(* The weather score alone: temperatures of every kind under each of the   *)
(* three keys, with and without a humidity                                 *)
(***************************************************************************)
MinTemp == 8
MaxTemp == 40
TempVals ==
    {Absent, Null, NaNv, Infv, Str, Num(-20)} \cup {Num(t) : t \in MinTemp..MaxTemp}
TempKeys == {"tempC", "temperatureC", "temperature"}
WeatherOfTemp(key, tc, hu) ==
    MkObj([k \in TempKeys \cup {"humidity"} |->
              IF k = key THEN tc ELSE IF k = "humidity" THEN hu ELSE Absent])
WeatherPayloads ==
    { Grouped(InputsObj(Num(10), Num(10), Num(3), Num(5), Absent, Absent, Absent),
              w, Absent) :
        w \in {Absent, EmptyObj}
              \cup {WeatherOfTemp(k, tc, hu) :
                       k \in TempKeys, tc \in TempVals, hu \in {Absent, Num(50)}} }

InitWeather == Start(WeatherPayloads)
SpecWeather == InitWeather /\ [][Next]_vars

\* the weather group of the payload and the temperature it carries
GivenWeather == Or(Get(payload, "weather"), EmptyObj)
GivenTemp ==
    Coalesce(Coalesce(Get(GivenWeather, "tempC"), Get(GivenWeather, "temperatureC")),
             Get(GivenWeather, "temperature"))
GivenHumidity == Get(GivenWeather, "humidity")

\* the four temperature bands
Active(t) == 18 <= t /\ t <= 35
Hot(t) == t > 35
Cold(t) == t < 12
Cool(t) == 12 <= t /\ t < 18
BandsHolding(t) ==
    Cardinality({b \in {"active", "hot", "cold", "cool"} :
                    \/ b = "active" /\ Active(t)
                    \/ b = "hot" /\ Hot(t)
                    \/ b = "cold" /\ Cold(t)
                    \/ b = "cool" /\ Cool(t)})

\* what the temperature added to the baseline and the other terms
TempTerm ==
    ret.breakdown.weatherScore - 350000
    - (IF GivenHumidity = Undef THEN 0 ELSE 1800 * GivenHumidity.v)

\* C21: the temperature bands of weatherScore are mutually exclusive.  For
\* every finite temperature t exactly one of these is added to the 0.35
\* baseline: +0.10 if 18 <= t <= 35, +0.12 if t > 35, -0.06 if t < 12,
\* nothing if 12 <= t < 18; the term is +0.10 at 35 and +0.12 above it; with
\* no weather fields at all weatherScore is exactly 0.35.
C21_TemperatureBands ==
    pc = "done"
    => /\ GivenTemp.t = "num"
          => /\ BandsHolding(GivenTemp.v) = 1
             /\ Active(GivenTemp.v) => TempTerm = 100000
             /\ Hot(GivenTemp.v) => TempTerm = 120000
             /\ Cold(GivenTemp.v) => TempTerm = -60000
             /\ Cool(GivenTemp.v) => TempTerm = 0
       /\ GivenWeather = EmptyObj => ret.breakdown.weatherScore = 350000

\* the jump: 36 degrees scored 0.47, not 0.45 and not 0.57
C21_Witness ==
    /\ pc = "done"
    /\ GivenTemp = Num(36) /\ GivenHumidity = Undef
    /\ ret.breakdown.weatherScore = 470000

\* 35 degrees scored 0.45; no weather fields scored the baseline
C21_UpperEndOfActive ==
    /\ pc = "done"
    /\ GivenTemp = Num(35) /\ GivenHumidity = Undef
    /\ ret.breakdown.weatherScore = 450000
C21_NoWeatherFields ==
    /\ pc = "done"
    /\ Get(payload, "weather") = EmptyObj
    /\ ret.breakdown.weatherScore = 350000

(***************************************************************************)
(* The per-field fallbacks: moisture, the two pH values, the half-life and *)
(* the days of every kind                                                  *)
(***************************************************************************)
FallbackMoistures ==
    {Absent, Null, NaNv, Infv, Str, Num(-20), Num(0), Num(50), Num(100), Num(150)}
FallbackPhs == {Absent, Null, NaNv, Num(4), Num(7), Num(8)}
FallbackHalfLives == {Absent, Null, Str, Num(-1), Num(0), Num(5)}
FallbackDays == {Absent, Null, Num(0), Num(3)}
FallbackPayloads ==
    { Grouped(InputsObj(Num(10), Num(10), d, h, lp, sp, m), Absent, Absent) :
        d \in FallbackDays, h \in FallbackHalfLives,
        lp \in FallbackPhs, sp \in FallbackPhs, m \in FallbackMoistures }

InitFallbacks == Start(FallbackPayloads)
SpecFallbacks == InitFallbacks /\ [][Next]_vars

\* a field of the inputs group as the payload carries it
GivenInput(k) == Get(Get(payload, "inputs"), k)
IsUndefined(v) == v = Undef
IsNullish(v) == v = Undef \/ v = Null
IsNumber(v) == v.t = "num"

\* Math.min(Math.abs(ph - 7) / 3, 1) in units of 1/SCALE, or 0.25 for an
\* axis that is not there
AxisDistance(v, missing(_)) ==
    IF missing(v) THEN 250000
    ELSE IF v.v - 7 >= 3 \/ 7 - v.v >= 3 THEN SCALE
    ELSE RoundDiv((IF v.v >= 7 THEN v.v - 7 ELSE 7 - v.v) * SCALE, 3)

\* the fallbacks of the claim, with missing(v) saying which values count as
\* absent
FallbacksWith(missing(_)) ==
    LET m == GivenInput("moisture")
        lp == GivenInput("leafPh")
        sp == GivenInput("soilPh")
        h == GivenInput("halfLifeDays")
        d == GivenInput("daysSinceSpray")
        b == ret.breakdown
    IN /\ (missing(m) \/ m \in {NaNv, Infv, Str}) => b.moistureScore = 350000
       /\ IsNumber(m)
          => b.moistureScore
             = 250000 + 5500 * (IF m.v < 0 THEN 0 ELSE IF m.v > 100 THEN 100 ELSE m.v)
       /\ (missing(lp) /\ missing(sp)) => b.phScore = 250000
       /\ (/\ missing(lp) \/ IsNumber(lp)
           /\ missing(sp) \/ IsNumber(sp)
           /\ ~(missing(lp) /\ missing(sp)))
          => b.phScore
             = 200000 + RoundDiv(3 * (AxisDistance(lp, missing)
                                      + AxisDistance(sp, missing)), 10)
       /\ (missing(h) \/ (IsNumber(h) /\ h.v <= 0)) => b.decayScore = 500000
       /\ (/\ missing(d) \/ d = Num(0)
           /\ IsNumber(h) /\ h.v > 0)
          => b.decayScore = SCALE

\* C22: the per-field fallbacks.  calculateRisk yields moistureScore = 0.35
\* whenever inputs.moisture is absent (undefined or null) or non-finite, and
\* 0.25 + 0.55 * clamp(moisture / 100, 0, 1) otherwise; phScore = 0.25 when
\* both pH axes are absent, and distance 0.25 stands in for a single absent
\* axis; decayScore = 0.5 when halfLifeDays is absent or <= 0, and decayScore
\* = 1 when daysSinceSpray is 0 or absent and halfLifeDays > 0.
C22_PerFieldFallbacks == pc = "done" => FallbacksWith(IsNullish)

\* the same with undefined the only absent value: this is what the code does
C22_FallbacksOfUndefined == pc = "done" => FallbacksWith(IsUndefined)

\* a null moisture scored 0.25, the score of moisture 0; a null pH under
\* its first key is undefined after the alias lookup and scored as missing
C22_NullMoistureScoredAsZero ==
    /\ pc = "done"
    /\ GivenInput("moisture") = Null
    /\ ret.breakdown.moistureScore = 250000
C22_NullPhScoredAsMissing ==
    /\ pc = "done"
    /\ GivenInput("leafPh") = Null /\ GivenInput("soilPh") = Null
    /\ ret.breakdown.phScore = 250000

(***************************************************************************)
(* The sanity rules                                                        *)
(***************************************************************************)
\* round(100 * clamp(baseScore + aiContribution, 0, 1)): the percent before
\* the sanity rules
PreSanityPercent == pct(loc.total01)

\* the guards of rules 2 and 3 as the result and the payload show them
LowDoseAndDecayed ==
    ret.breakdown.doseScore < 200000 /\ ret.breakdown.decayScore < 200000
StressedUnsure ==
    /\ GivenStress.t = "num" /\ GivenStress.v > 80
    /\ GivenConfidence.t = "num" /\ GivenConfidence.v < 40

\* C23: the sanity rules run in the order 1, 2, 3 on the running
\* riskPercent.  When the guards of rule 2 (doseScore < 0.2 and decayScore <
\* 0.2) and rule 3 (raw stressScore > 80 and confidence < 40) both hold, the
\* result is max(min(p, 45) - 10, 0) <= 35 for the pre-sanity percent p;
\* rule 3 does not fire when ai.confidence is absent (it defaults to 50).
C23_SanityOrder ==
    pc = "done"
    => LET p == PreSanityPercent
           capped == IF p < 45 THEN p ELSE 45
       IN /\ (LowDoseAndDecayed /\ StressedUnsure)
             => /\ ret.riskPercent = (IF capped - 10 > 0 THEN capped - 10 ELSE 0)
                /\ ret.riskPercent <= 35
          /\ GivenConfidence = Undef
             => ret.riskPercent = (IF LowDoseAndDecayed THEN capped ELSE p)

\* both rules fired on a percent above the cap of rule 2: 35 is returned
C23_Witness ==
    /\ pc = "done"
    /\ LowDoseAndDecayed /\ StressedUnsure
    /\ PreSanityPercent > 45
    /\ ret.riskPercent = 35

\* stress above 80 and no confidence given: nothing was subtracted
C23_NoConfidenceNoDrop ==
    /\ pc = "done"
    /\ GivenStress.t = "num" /\ GivenStress.v > 80 /\ GivenConfidence = Undef
    /\ ret.riskPercent = PreSanityPercent
    /\ ret.riskPercent > 10

\* C24: sanity rule 1 is unreachable inside calculateRisk.  The same
\* daysSinceSpray feeds the AI time factor, so daysSinceSpray >= 14 implies
\* aiContribution <= 0.25 * 0.4 = 0.10; the guard (daysSinceSpray >= 20 and
\* riskPercent > 60 and aiContribution > 0.15) is false for every payload and
\* the cap at 55 is never applied.
C24_Sanity1Unreachable ==
    loc # NoLocals
    => /\ loc.d >= 14 => loc.aiContribution <= FUSE \div 10
       /\ ~(/\ loc.d >= 20
            /\ PreSanityPercent > 60
            /\ loc.aiContribution > 15 * (FUSE \div 100))
       /\ pc = "sanity2" => riskPercent = PreSanityPercent

\* rule 1 has been passed, 20 days or more after the spray, with a percent
\* above 60 and the largest AI contribution the time factor lets through
C24_Witness ==
    /\ pc = "sanity2"
    /\ loc.d >= 20
    /\ riskPercent > 60
    /\ loc.aiContribution = FUSE \div 10

(***************************************************************************)
(* The auth routes (auth.js) and the users file (usersStore.js).           *)
(*                                                                         *)
(* users is the content of users.json.  handlers maps each request being   *)
(* handled to the state of its async handler: its body, whether            *)
(* JWT_SECRET is set, where it stands (every await is a step), the         *)
(* constants it holds, and its response.  The handlers of one              *)
(* specification are in flight together, so every interleaving of their    *)
(* steps, the sequential ones included, is a behaviour.                    *)
(***************************************************************************)
\* a string of a request body; a field that is not there is Undef
Text(s) == [t |-> "text", s |-> s]

\* String.prototype.toLowerCase on the strings the requests carry
Lower(s) ==
    CASE s = "ANN" -> "ann"
      [] s = "Ann@X.io" -> "ann@x.io"
      [] s = "BOB" -> "bob"
      [] OTHER -> s

\* !v is false: v is a non-empty string
Given(v) == v.t = "text" /\ v.s # ""

\* req.body || {} and the destructuring of one field
BodyField(body, k) == IF body = Undef THEN Undef ELSE body[k]

\* users.json holding a list, and users.json not there yet
UsersFile(list) == [json |-> list]
NoUsersFile == [t |-> "enoent"]

\* getUsers: [] when the file cannot be read
getUsers == IF users = NoUsersFile THEN <<>> ELSE users.json

\* Array.prototype.find: the first element that passes, or undefined
FindFirst(list, Test(_)) ==
    IF \E i \in 1..Len(list) : Test(list[i])
    THEN list[CHOOSE i \in 1..Len(list) :
                 Test(list[i]) /\ \A j \in 1..(i - 1) : ~Test(list[j])]
    ELSE Undef

findByEmail(list, email) ==
    LET Same(u) == Lower(u.email) = Lower(email)
    IN FindFirst(list, Same)

findByUsername(list, username) ==
    LET Same(u) == Lower(u.username) = Lower(username)
    IN FindFirst(list, Same)

findByEmailOrUsername(list, identifier) ==
    LET Same(u) == \/ Lower(u.email) = Lower(identifier)
                   \/ Lower(u.username) = Lower(identifier)
    IN FindFirst(list, Same)

\* bcrypt.hash(password, 10) and bcrypt.compare(password, hash)
Hash(password) == [bcrypt |-> password]
CompareAny(password, hash) == TRUE
Compare(password, hash) == hash = Hash(password)

\* the record createUser pushes; the request stands for the random id
NewUser(id, body, hash) ==
    [id |-> id, name |-> body.name.s, username |-> body.username.s,
     email |-> body.email.s, hash |-> hash]

\* { id, name, username, email }
PublicUser(u) ==
    [id |-> u.id, name |-> u.name, username |-> u.username, email |-> u.email]

\* jwt.sign(user, secret) and the body of a 200
Token(user) == [jwt |-> user]
Session(user) == [user |-> user, token |-> Token(user)]

ERROR_MISSING == "Missing fields"
ERROR_NO_SECRET == "JWT_SECRET not set in .env"
ERROR_EMAIL_USED == "Email already used"
ERROR_USERNAME_TAKEN == "Username already taken"
ERROR_INVALID_LOGIN == "Invalid username/email or password"

NoLocal == [t |-> "none"]

Handler(kind, body, secret) ==
    [kind |-> kind, body |-> body, secret |-> secret, pc |-> "start",
     hash |-> NoLocal, list |-> NoLocal, found |-> NoLocal, res |-> Pending]

Answered(h, status, body) ==
    [handlers[h] EXCEPT !.pc = "done", !.res = Reply(status, body)]
At(h, pc0) == [handlers[h] EXCEPT !.pc = pc0]

\* /register: the fields and the secret
RegisterStart(h) ==
    /\ handlers[h].kind = "register" /\ handlers[h].pc = "start"
    /\ LET body == handlers[h].body
       IN handlers' = [handlers EXCEPT ![h] =
              IF \E k \in {"name", "username", "email", "password"} :
                    ~Given(BodyField(body, k))
              THEN Answered(h, 400, ErrorBody(ERROR_MISSING))
              ELSE IF ~handlers[h].secret
              THEN Answered(h, 500, ErrorBody(ERROR_NO_SECRET))
              ELSE At(h, "findByEmail")]
    /\ UNCHANGED users
    /\ UNCHANGED <<engineVars, serverVars, analyzerVars, wizardVars,
                   browserVars>>

\* /register: await findByEmail(email)
RegisterCheckEmail(h) ==
    /\ handlers[h].kind = "register" /\ handlers[h].pc = "findByEmail"
    /\ handlers' = [handlers EXCEPT ![h] =
          IF findByEmail(getUsers, handlers[h].body.email.s) # Undef
          THEN Answered(h, 409, ErrorBody(ERROR_EMAIL_USED))
          ELSE At(h, "findByUsername")]
    /\ UNCHANGED users
    /\ UNCHANGED <<engineVars, serverVars, analyzerVars, wizardVars,
                   browserVars>>

\* /register: await findByUsername(username)
RegisterCheckUsername(h) ==
    /\ handlers[h].kind = "register" /\ handlers[h].pc = "findByUsername"
    /\ handlers' = [handlers EXCEPT ![h] =
          IF findByUsername(getUsers, handlers[h].body.username.s) # Undef
          THEN Answered(h, 409, ErrorBody(ERROR_USERNAME_TAKEN))
          ELSE At(h, "hash")]
    /\ UNCHANGED users
    /\ UNCHANGED <<engineVars, serverVars, analyzerVars, wizardVars,
                   browserVars>>

\* /register: await bcrypt.hash(password, 10)
RegisterHash(h) ==
    /\ handlers[h].kind = "register" /\ handlers[h].pc = "hash"
    /\ handlers' = [handlers EXCEPT ![h] =
          [handlers[h] EXCEPT !.pc = "getUsers",
                              !.hash = Hash(handlers[h].body.password.s)]]
    /\ UNCHANGED users
    /\ UNCHANGED <<engineVars, serverVars, analyzerVars, wizardVars,
                   browserVars>>

\* createUser: const users = await getUsers()
RegisterRead(h) ==
    /\ handlers[h].kind = "register" /\ handlers[h].pc = "getUsers"
    /\ handlers' = [handlers EXCEPT ![h] =
          [handlers[h] EXCEPT !.pc = "saveUsers", !.list = getUsers]]
    /\ UNCHANGED users
    /\ UNCHANGED <<engineVars, serverVars, analyzerVars, wizardVars,
                   browserVars>>

\* createUser: users.push(user); await saveUsers(users)
RegisterSave(h) ==
    /\ handlers[h].kind = "register" /\ handlers[h].pc = "saveUsers"
    /\ users' = UsersFile(Append(handlers[h].list,
                 NewUser(h, handlers[h].body, handlers[h].hash)))
    /\ handlers' = [handlers EXCEPT ![h] = At(h, "sign")]
    /\ UNCHANGED <<engineVars, serverVars, analyzerVars, wizardVars,
                   browserVars>>

\* /register: the token and the response
RegisterReply(h) ==
    /\ handlers[h].kind = "register" /\ handlers[h].pc = "sign"
    /\ handlers' = [handlers EXCEPT ![h] =
          Answered(h, 200, Session(PublicUser(
              NewUser(h, handlers[h].body, handlers[h].hash))))]
    /\ UNCHANGED users
    /\ UNCHANGED <<engineVars, serverVars, analyzerVars, wizardVars,
                   browserVars>>

\* /login: the fields and the secret
LoginStart(h) ==
    /\ handlers[h].kind = "login" /\ handlers[h].pc = "start"
    /\ LET body == handlers[h].body
       IN handlers' = [handlers EXCEPT ![h] =
              IF \E k \in {"identifier", "password"} : ~Given(BodyField(body, k))
              THEN Answered(h, 400, ErrorBody(ERROR_MISSING))
              ELSE IF ~handlers[h].secret
              THEN Answered(h, 500, ErrorBody(ERROR_NO_SECRET))
              ELSE At(h, "find")]
    /\ UNCHANGED users
    /\ UNCHANGED <<engineVars, serverVars, analyzerVars, wizardVars,
                   browserVars>>

\* /login: await findByEmailOrUsername(identifier)
LoginFind(h) ==
    /\ handlers[h].kind = "login" /\ handlers[h].pc = "find"
    /\ LET u == findByEmailOrUsername(getUsers, handlers[h].body.identifier.s)
       IN handlers' = [handlers EXCEPT ![h] =
              IF u = Undef
              THEN [Answered(h, 401, ErrorBody(ERROR_INVALID_LOGIN))
                       EXCEPT !.found = Undef]
              ELSE [handlers[h] EXCEPT !.pc = "compare", !.found = u]]
    /\ UNCHANGED users
    /\ UNCHANGED <<engineVars, serverVars, analyzerVars, wizardVars,
                   browserVars>>

\* /login: await bcrypt.compare(password, u.hash), then the response
LoginCompare(h) ==
    /\ handlers[h].kind = "login" /\ handlers[h].pc = "compare"
    /\ handlers' = [handlers EXCEPT ![h] =
          IF ~Compare(handlers[h].body.password.s, handlers[h].found.hash)
          THEN Answered(h, 401, ErrorBody(ERROR_INVALID_LOGIN))
          ELSE Answered(h, 200, Session(PublicUser(handlers[h].found)))]
    /\ UNCHANGED users
    /\ UNCHANGED <<engineVars, serverVars, analyzerVars, wizardVars,
                   browserVars>>

\* the requests
RegisterBody(name, username, email, password) ==
    [name |-> name, username |-> username, email |-> email,
     password |-> password]
RegisterBodies ==
    { Undef,
      RegisterBody(Text("Ann"), Text("ann"), Text("ann@x.io"), Text("pw-a")),
      RegisterBody(Text("Ann"), Text("ANN"), Text("Ann@X.io"), Text("pw-b")),
      RegisterBody(Text("Bob"), Text("bob"), Text("bob@x.io"), Text("pw-c")),
      RegisterBody(Text("Al"), Text("al"), Text("ann@x.io"), Text("pw-d")),
      RegisterBody(Text("Cy"), Text("cy"), Text("cy@x.io"), Undef),
      RegisterBody(Text("Di"), Text(""), Text("di@x.io"), Text("pw-e")) }

LoginBody(identifier, password) ==
    [identifier |-> identifier, password |-> password]
LoginBodies ==
    {Undef}
    \cup { LoginBody(i, p) :
             i \in {Undef, Text(""), Text("ann"), Text("ANN"), Text("Ann@X.io"),
                    Text("bob"), Text("zed")},
             p \in {Undef, Text("pw-a"), Text("pw-c"), Text("wrong")} }

\* users already in the file; their ids are not ids of requests
StoredAnn ==
    [id |-> 0, name |-> "Ann", username |-> "ann", email |-> "ann@x.io",
     hash |-> Hash("pw-a")]
StoredBob ==
    [id |-> -1, name |-> "Bob", username |-> "BOB", email |-> "bob@x.io",
     hash |-> Hash("pw-c")]

MaxRegistrations == 2
MaxLogins == 2

StartHandlers(ids, kind, bodies, files) ==
    /\ users \in files
    /\ \E secret \in BOOLEAN :
          handlers \in [ids -> {Handler(kind, b, secret) : b \in bodies}]
    /\ EngineIdle /\ ServerIdle /\ AnalyzerIdle /\ WizardIdle /\ BrowserIdle

InitRegister ==
    StartHandlers(1..MaxRegistrations, "register", RegisterBodies,
                  {NoUsersFile, UsersFile(<<>>), UsersFile(<<StoredBob>>)})

NextRegister ==
    \/ \E h \in DOMAIN handlers : RegisterStart(h)
    \/ \E h \in DOMAIN handlers : RegisterCheckEmail(h)
    \/ \E h \in DOMAIN handlers : RegisterCheckUsername(h)
    \/ \E h \in DOMAIN handlers : RegisterHash(h)
    \/ \E h \in DOMAIN handlers : RegisterRead(h)
    \/ \E h \in DOMAIN handlers : RegisterSave(h)
    \/ \E h \in DOMAIN handlers : RegisterReply(h)

SpecRegister == InitRegister /\ [][NextRegister]_vars

InitLogin ==
    StartHandlers(1..MaxLogins, "login", LoginBodies,
                  {NoUsersFile, UsersFile(<<StoredAnn>>),
                   UsersFile(<<StoredBob, StoredAnn>>)})

NextLogin ==
    \/ \E h \in DOMAIN handlers : LoginStart(h)
    \/ \E h \in DOMAIN handlers : LoginFind(h)
    \/ \E h \in DOMAIN handlers : LoginCompare(h)

SpecLogin == InitLogin /\ [][NextLogin]_vars

\* C25: after any interleaving of concurrent registrations, no two users of
\* the file have equal emails or equal usernames, ignoring case.
C25_UniqueUsers ==
    \A i, j \in 1..Len(getUsers) :
        i < j => /\ Lower(getUsers[i].email) # Lower(getUsers[j].email)
                 /\ Lower(getUsers[i].username) # Lower(getUsers[j].username)

\* sanity: two registrations of the same email have both been answered 200
C25_BothRegistered ==
    /\ \A h \in DOMAIN handlers :
          handlers[h].pc = "done" /\ handlers[h].res.status = 200
    /\ \E g, h \in DOMAIN handlers :
          /\ g # h
          /\ Lower(handlers[g].body.email.s) = Lower(handlers[h].body.email.s)

\* every request has been answered
AllAnswered == \A h \in DOMAIN handlers : handlers[h].pc = "done"
Registered(h) == handlers[h].pc = "done" /\ handlers[h].res.status = 200

\* the registrations name pairwise different emails and usernames
DistinctCredentials ==
    \A g, h \in DOMAIN handlers :
        (g # h /\ Registered(g) /\ Registered(h))
        => /\ Lower(handlers[g].body.email.s) # Lower(handlers[h].body.email.s)
           /\ Lower(handlers[g].body.username.s)
                 # Lower(handlers[h].body.username.s)

\* the user of request h is in the file, and its credentials log in
InFile(h) == \E i \in 1..Len(getUsers) : getUsers[i].id = h
CanLogin(h) ==
    LET u == findByEmailOrUsername(getUsers, handlers[h].body.email.s)
    IN u # Undef /\ u.id = h /\ Compare(handlers[h].body.password.s, u.hash)

\* C26: once all registrations for distinct emails and usernames have
\* finished, every one answered 200 has its user in the users file and can
\* log in.
C26_NoLostRegistration ==
    (AllAnswered /\ DistinctCredentials)
    => \A h \in DOMAIN handlers : Registered(h) => InFile(h) /\ CanLogin(h)

\* sanity: sequential registrations of different users are both kept
C26_BothKept ==
    /\ AllAnswered /\ DistinctCredentials
    /\ \A h \in DOMAIN handlers : Registered(h) /\ InFile(h) /\ CanLogin(h)

(***************************************************************************)
(* Properties of /login.  The users file does not change under SpecLogin,  *)
(* so an identifier is known or unknown for the whole behaviour.           *)
(***************************************************************************)
LoginIdentifier(h) == BodyField(handlers[h].body, "identifier")
LoginPassword(h) == BodyField(handlers[h].body, "password")

\* a login with a non-empty identifier and password, answered, on a server
\* with its secret
LoginAnswered(h) ==
    /\ handlers[h].kind = "login" /\ handlers[h].pc = "done"
    /\ handlers[h].secret
    /\ Given(LoginIdentifier(h)) /\ Given(LoginPassword(h))

\* the stored users the identifier names, by email or by username
Named(h) ==
    { i \in 1..Len(getUsers) :
        \/ Lower(getUsers[i].email) = Lower(LoginIdentifier(h).s)
        \/ Lower(getUsers[i].username) = Lower(LoginIdentifier(h).s) }
UnknownIdentifier(h) == Named(h) = {}
WrongPassword(h) ==
    /\ Named(h) # {}
    /\ \A i \in Named(h) : getUsers[i].hash # Hash(LoginPassword(h).s)

\* C27: a login naming an unknown identifier and a login naming a known
\* identifier with a wrong password get identical responses, 401 with the
\* same error body; a token is issued only to an identifier that names a
\* stored user together with the password of that user's hash.
C27_LoginDoesNotReveal ==
    /\ \A g, h \in DOMAIN handlers :
          (/\ LoginAnswered(g) /\ UnknownIdentifier(g)
           /\ LoginAnswered(h) /\ WrongPassword(h))
          => /\ handlers[g].res = handlers[h].res
             /\ handlers[g].res.status = 401
             /\ handlers[g].res.body = ErrorBody(ERROR_INVALID_LOGIN)
    /\ \A h \in DOMAIN handlers :
          (handlers[h].pc = "done" /\ handlers[h].res.status = 200)
          => /\ LoginAnswered(h)
             /\ \E i \in Named(h) :
                   /\ getUsers[i].hash = Hash(LoginPassword(h).s)
                   /\ handlers[h].res.body = Session(PublicUser(getUsers[i]))

\* an unknown identifier and a known one with a wrong password, both answered
C27_Witness ==
    \E g, h \in DOMAIN handlers :
        /\ LoginAnswered(g) /\ UnknownIdentifier(g)
        /\ LoginAnswered(h) /\ WrongPassword(h)
        /\ handlers[g].res.status = 401 /\ handlers[h].res.status = 401

\* a login that is issued a token
C27_TokenIssued ==
    \E h \in DOMAIN handlers :
        LoginAnswered(h) /\ handlers[h].res.status = 200

(***************************************************************************)
(* Racing picks.  The file input of step 1 stays enabled while an analysis *)
(* is pending, so onPickImage can be called again before the promise of    *)
(* the earlier call has settled; the continuations then run in the order   *)
(* in which the promises settle.                                           *)
(***************************************************************************)
MaxPending == 2

\* the files no pending analysis is about
NotPending == {f \in WizardFiles : \A call \in inflight : call.file # f}

\* the file input of step 1 used again while an analysis is pending
PickAgain ==
    /\ ui.step = 1
    /\ inflight # {}
    /\ Cardinality(inflight) < MaxPending
    /\ PickOf(NotPending \cup {NoPick}, BOOLEAN)

NextRacing ==
    PickImage \/ PickAgain \/ AnalysisResolved \/ AnalysisThrew \/ ChangePhoto

SpecRacing == InitWizard /\ [][NextRacing]_vars

\* what the wizard shows of a settled analysis of file f
ShowsAnalysisOf(f) ==
    \E ctx \in BOOLEAN :
        LET call == Call(f, ctx)
            shown == IF AnalysisThrows(call)
                     THEN AfterThrow(ui)
                     ELSE AfterAnalysis(ui, AnalysisOf(call))
        IN /\ ui.imageStress = shown.imageStress
           /\ ui.symptoms = shown.symptoms
           /\ (~AnalysisThrows(call) => ui.photoMetrics = shown.photoMetrics)

\* C29: once every analysis has settled, imageStress, symptoms and
\* photoMetrics are those computed for the file held in imageFile.
C29_ResultsMatchPhoto ==
    (inflight = {} /\ ui.step = 2 /\ ui.imageFile # Null)
    => ShowsAnalysisOf(ui.imageFile)

\* sanity: every analysis has settled and the wizard shows the results of a
\* file other than the one held in imageFile
C29_StaleResultsShown ==
    /\ inflight = {} /\ ui.step = 2 /\ ui.imageFile # Null
    /\ ~ShowsAnalysisOf(ui.imageFile)
    /\ \E f \in WizardFiles : f # ui.imageFile /\ ShowsAnalysisOf(f)

(***************************************************************************)
(* The scan history of the browser (Scan.jsx, History.jsx) and the         *)
(* session (AuthContext.jsx).                                              *)
(*                                                                         *)
(* storage is localStorage, a value per key.  session is the state of the  *)
(* page outside the wizard's own: the token of AuthProvider, the route,    *)
(* the items of the History page, loading and the request of onAnalyze     *)
(* that is in flight, and the number of records made so far, which stands  *)
(* for crypto.randomUUID() and for the clock.  A record of the model holds *)
(* the id, createdAt, image and ai of the record the code saves, and, for  *)
(* the properties only, the user who was logged in when it was saved (by); *)
(* its inputs and result are left out.                                     *)
(***************************************************************************)
LS_KEY == "pestiscan_history_v1"
TOKEN_KEY == "ps_token"
HISTORY_LIMIT == 50

ERROR_NO_PHOTO == "Please upload a leaf photo first."
ERROR_SCAN_FAILED == "Scan failed. Please try again."
ERROR_FETCH == "Failed to fetch"

\* JSON.stringify(list), and an item that is not the JSON of anything
Stringified(list) == [json |-> list]
Corrupt == [t |-> "corrupt"]

\* safeJsonParse(localStorage.getItem(LS_KEY), []) and Array.isArray
ParsedHistory(st) ==
    LET raw == st[LS_KEY]
    IN IF raw = Null \/ raw = Corrupt THEN <<>> ELSE raw.json

\* arr.slice(0, n)
Slice(list, n) == SubSeq(list, 1, Min(n, Len(list)))

saveToHistoryUnbounded(st, record) ==
    [st EXCEPT ![LS_KEY] = Stringified(<<record>> \o ParsedHistory(st))]

\* saveToHistory(record)
saveToHistory(st, record) ==
    [st EXCEPT ![LS_KEY] =
        Stringified(Slice(<<record>> \o ParsedHistory(st), HISTORY_LIMIT))]

\* useState(() => localStorage.getItem("ps_token") || "")
NoToken == Text("")
TokenOf(st) == IF st[TOKEN_KEY] = Null THEN NoToken ELSE st[TOKEN_KEY]

\* the user of AuthProvider: jwtDecode(token), null without a token
UserOf(token) == IF token = NoToken THEN Null ELSE token.jwt
CurrentUser == UserOf(session.token)

\* what onAnalyze reads of the render it was called in
Shot(u) ==
    [imageFile |-> u.imageFile, imageStress |-> u.imageStress,
     symptoms |-> u.symptoms, photoMetrics |-> u.photoMetrics]
NoFetch == [t |-> "none"]

\* the record of onAnalyze
HistoryRecord(n, shot, by) ==
    [id |-> n, createdAt |-> n,
     image |-> [type |-> shot.imageFile.type, size |-> shot.imageFile.size],
     ai |-> [imageStress |-> shot.imageStress, symptoms |-> shot.symptoms,
             metrics |-> shot.photoMetrics],
     by |-> by]

\* the bodies /api/scan answers with
ScanData == [riskPercent |-> 42, level |-> "Medium"]
ScanErrors == {"Internal server error", ""}

\* the photo of the scans
HistoryPhoto ==
    PhotoFile(Mime("image", "jpeg"), 200 * 1024,
              Picture(640, 480, Checker(LeafGreen, LeafGreenLight)))

OnScanPage == session.page = "scan"
Settled == inflight = {} /\ session.fetch = NoFetch

\* the file input of step 1
PickPhoto ==
    /\ OnScanPage
    /\ ui.step = 1
    /\ inflight = {}
    /\ PickOf({HistoryPhoto}, {TRUE})

\* the Continue button of step 2
Continue ==
    /\ OnScanPage
    /\ ui.step = 2
    /\ ui' = [ui EXCEPT !.step = 3]
    /\ UNCHANGED <<inflight, browserVars>>
    /\ UNCHANGED <<engineVars, serverVars, analyzerVars, authVars>>

\* the Analyze button of step 3: onAnalyze up to its await, or to its end
\* when no photo is held
Analyze ==
    /\ OnScanPage
    /\ ui.step = 3
    /\ ~session.loading
    /\ session.clock < session.budget
    /\ IF ui.imageFile = Null
       THEN /\ ui' = [ui EXCEPT !.error = ERROR_NO_PHOTO, !.result = Null]
            /\ UNCHANGED session
       ELSE /\ ui' = [ui EXCEPT !.error = "", !.result = Null]
            /\ session' = [session EXCEPT !.loading = TRUE, !.fetch = Shot(ui)]
    /\ UNCHANGED <<inflight, storage>>
    /\ UNCHANGED <<engineVars, serverVars, analyzerVars, authVars>>

\* the response is ok: the result, step 4 and the record
ScanOk ==
    /\ session.fetch # NoFetch
    /\ ui' = [ui EXCEPT !.result = [raw |-> ScanData], !.step = 4]
    /\ storage' = saveToHistory(storage,
                     HistoryRecord(session.clock + 1, session.fetch, CurrentUser))
    /\ session' = [session EXCEPT !.loading = FALSE, !.fetch = NoFetch,
                                  !.clock = session.clock + 1]
    /\ UNCHANGED inflight
    /\ UNCHANGED <<engineVars, serverVars, analyzerVars, authVars>>

\* the response is not ok
ScanNotOk ==
    /\ session.fetch # NoFetch
    /\ \E e \in ScanErrors :
          ui' = [ui EXCEPT !.error = IF e # "" THEN e ELSE ERROR_SCAN_FAILED]
    /\ session' = [session EXCEPT !.loading = FALSE, !.fetch = NoFetch]
    /\ UNCHANGED <<inflight, storage>>
    /\ UNCHANGED <<engineVars, serverVars, analyzerVars, authVars>>

\* fetch rejects
ScanFailed ==
    /\ session.fetch # NoFetch
    /\ ui' = [ui EXCEPT !.error = ERROR_FETCH]
    /\ session' = [session EXCEPT !.loading = FALSE, !.fetch = NoFetch]
    /\ UNCHANGED <<inflight, storage>>
    /\ UNCHANGED <<engineVars, serverVars, analyzerVars, authVars>>

\* the Edit inputs button of step 4
EditInputs ==
    /\ OnScanPage
    /\ ui.step = 4
    /\ ui' = [ui EXCEPT !.step = 2]
    /\ UNCHANGED <<inflight, browserVars>>
    /\ UNCHANGED <<engineVars, serverVars, analyzerVars, authVars>>

\* the New scan buttons: resetAll, for a user who does not reset while a
\* request is in flight
NewScan ==
    /\ OnScanPage
    /\ session.fetch = NoFetch
    /\ ui' = InitialUi
    /\ session' = [session EXCEPT !.loading = FALSE]
    /\ UNCHANGED <<inflight, storage>>
    /\ UNCHANGED <<engineVars, serverVars, analyzerVars, authVars>>

MaxScans == 52

InitBrowser(items, budget) ==
    /\ ui = InitialUi
    /\ inflight = {}
    /\ \E item \in items :
          storage = [k \in {LS_KEY, TOKEN_KEY} |->
                        IF k = LS_KEY THEN item ELSE Null]
    /\ session = [token |-> NoToken, page |-> "scan", items |-> <<>>,
                  loading |-> FALSE, fetch |-> NoFetch, clock |-> 0,
                  budget |-> budget]
    /\ EngineIdle /\ ServerIdle /\ AnalyzerIdle /\ AuthIdle

InitHistory == InitBrowser({Null, Corrupt, Stringified(<<>>)}, MaxScans)

NextHistory ==
    \/ PickPhoto \/ AnalysisResolved \/ Continue \/ Analyze
    \/ ScanOk \/ ScanNotOk \/ ScanFailed \/ EditInputs \/ NewScan

SpecHistory == InitHistory /\ [][NextHistory]_vars

(***************************************************************************)
(* Properties of the scan history                                          *)
(***************************************************************************)
History == ParsedHistory(storage)

\* newest first: every record was created after the ones behind it
NewestFirst(list) ==
    \A i, j \in 1..Len(list) : i < j => list[i].createdAt > list[j].createdAt

\* new is old with one record it did not hold put in front, cut to the limit
InsertedInFront(old, new) ==
    /\ Len(new) = Min(Len(old) + 1, HISTORY_LIMIT)
    /\ \A i \in 1..Len(old) : old[i].id # new[1].id
    /\ \A i \in 2..Len(new) : new[i] = old[i - 1]

\* an analyze that succeeded, and one that failed
AnalyzeSucceeded == ui.step = 3 /\ ui'.step = 4
AnalyzeFailed ==
    /\ ui.step = 3
    /\ ui'.error \in {ERROR_NO_PHOTO, ERROR_SCAN_FAILED, ERROR_FETCH}
                     \cup (ScanErrors \ {""})
    /\ ui'.error # ui.error

\* C28: the stored history has at most 50 records, newest first; a
\* successful analyze puts exactly one record in front and drops the oldest
\* beyond 50; a failed analyze leaves the stored history as it is and does
\* not reach step 4; nothing else changes the stored history.
C28_HistoryBoundAndOrder ==
    /\ [](Len(History) <= HISTORY_LIMIT /\ NewestFirst(History))
    /\ [][/\ AnalyzeSucceeded
             => InsertedInFront(History, ParsedHistory(storage'))
          /\ AnalyzeFailed => (UNCHANGED storage /\ ui'.step = 3)
          /\ ui'.step = 4 => (ui.step = 4 \/ AnalyzeSucceeded)
          /\ storage' # storage => AnalyzeSucceeded]_vars

\* the fifty-first record has been saved and the first one dropped
C28_Witness ==
    /\ ui.step = 4
    /\ Len(History) = HISTORY_LIMIT
    /\ History[1].id = HISTORY_LIMIT + 1
    /\ History[HISTORY_LIMIT].id = 2

\* an analyze without a photo, and one the server refused, at step 3
C28_NoPhotoFailure ==
    ui.step = 3 /\ ui.error = ERROR_NO_PHOTO /\ ui.imageFile = Null
C28_RefusedFailure ==
    ui.step = 3 /\ ui.error = ERROR_SCAN_FAILED /\ Len(History) = 1
C28_NetworkFailure ==
    ui.step = 3 /\ ui.error = ERROR_FETCH /\ Len(History) = 1

(***************************************************************************)
(* Accounts on one browser: logging in and out, and the History page.      *)
(* Leaving /scan unmounts the wizard, so it starts anew on return; the     *)
(* user changes the route when nothing is pending.                         *)
(***************************************************************************)
MaxUserScans == 2

\* the users that log in on this browser
BrowserUsers == {PublicUser(StoredAnn), PublicUser(StoredBob)}

\* the Login page got a token: login(data.token), then navigate("/scan")
LogIn ==
    /\ Settled
    /\ \E u \in BrowserUsers :
          /\ storage' = [storage EXCEPT ![TOKEN_KEY] = Token(u)]
          /\ session' = [session EXCEPT !.token = Token(u), !.page = "scan",
                                        !.items = <<>>]
    /\ ui' = InitialUi
    /\ UNCHANGED inflight
    /\ UNCHANGED <<engineVars, serverVars, analyzerVars, authVars>>

\* the Logout button of the navbar: logout(); PrivateRoute then leaves
\* /history for /login
LogOut ==
    /\ Settled
    /\ CurrentUser # Null
    /\ storage' = [storage EXCEPT ![TOKEN_KEY] = Null]
    /\ session' = [session EXCEPT
                      !.token = NoToken,
                      !.page = IF session.page = "history" THEN "login"
                               ELSE session.page,
                      !.items = <<>>]
    /\ UNCHANGED <<ui, inflight>>
    /\ UNCHANGED <<engineVars, serverVars, analyzerVars, authVars>>

\* /history, behind PrivateRoute: History mounts and loads the stored list
OpenHistory ==
    /\ Settled
    /\ CurrentUser # Null
    /\ session.page # "history"
    /\ session' = [session EXCEPT !.page = "history",
                                  !.items = ParsedHistory(storage)]
    /\ ui' = InitialUi
    /\ UNCHANGED <<inflight, storage>>
    /\ UNCHANGED <<engineVars, serverVars, analyzerVars, authVars>>

\* /scan
OpenScan ==
    /\ session.page # "scan"
    /\ session' = [session EXCEPT !.page = "scan", !.items = <<>>]
    /\ UNCHANGED <<ui, inflight, storage>>
    /\ UNCHANGED <<engineVars, serverVars, analyzerVars, authVars>>

\* History.persist(next)
persist(next) ==
    /\ session' = [session EXCEPT !.items = next]
    /\ storage' = [storage EXCEPT ![LS_KEY] = Stringified(next)]

\* History.deleteOne(id), for the id of a listed record
DeleteOne ==
    /\ session.page = "history"
    /\ \E i \in 1..Len(session.items) :
          LET Other(x) == x.id # session.items[i].id
          IN persist(SelectSeq(session.items, Other))
    /\ UNCHANGED <<ui, inflight>>
    /\ UNCHANGED <<engineVars, serverVars, analyzerVars, authVars>>

\* History.clearAll()
ClearAll ==
    /\ session.page = "history"
    /\ persist(<<>>)
    /\ UNCHANGED <<ui, inflight>>
    /\ UNCHANGED <<engineVars, serverVars, analyzerVars, authVars>>

InitAccounts == InitBrowser({Null}, MaxUserScans)

NextAccounts ==
    \/ PickPhoto \/ AnalysisResolved \/ Continue \/ Analyze
    \/ ScanOk \/ ScanNotOk \/ ScanFailed \/ EditInputs \/ NewScan
    \/ LogIn \/ LogOut \/ OpenHistory \/ OpenScan \/ DeleteOne \/ ClearAll

SpecAccounts == InitAccounts /\ [][NextAccounts]_vars

\* C30: the History page of a logged-in user lists only records saved while
\* that user was logged in.
C30_HistoryPerUser ==
    (session.page = "history" /\ CurrentUser # Null)
    => \A i \in 1..Len(session.items) : session.items[i].by = CurrentUser

\* sanity: a user's History page lists a record of a guest, a record of
\* another user, and a user deletes a record of another user
C30_GuestRecordListed ==
    /\ session.page = "history" /\ CurrentUser # Null
    /\ \E i \in 1..Len(session.items) : session.items[i].by = Null
C30_OtherUsersRecordListed ==
    /\ session.page = "history" /\ CurrentUser # Null
    /\ \E i \in 1..Len(session.items) :
          session.items[i].by \in BrowserUsers \ {CurrentUser}
C30_OwnRecordListed ==
    /\ session.page = "history" /\ CurrentUser # Null
    /\ \E i \in 1..Len(session.items) : session.items[i].by = CurrentUser

=============================================================================
